---- MODULE Spec2Model ----
(***************************************************************************)
(* A model of the AHP survey tool (src/app.js and its two sibling builds   *)
(* src/unnamed/part_000, src/unnamed/part_001): the reciprocal pairwise    *)
(* matrices, the judgment handlers that edit them, the power-iteration     *)
(* solver and the consistency ratio.                                       *)
(*                                                                         *)
(* JavaScript numbers are modelled as exact rationals <<num, den>> in      *)
(* lowest terms with den > 0, extended by the three IEEE specials:         *)
(* <<1,0>> = Infinity, <<-1,0>> = -Infinity, <<0,0>> = NaN.  IEEE rounding *)
(* (errors of one unit in the last place) and the sign of zero are not     *)
(* modelled.  JavaScript arrays are functions over 0..n-1, so that indices *)
(* are the ones of the source.                                             *)
(***************************************************************************)
EXTENDS Integers, Sequences, FiniteSets, TLC

\* ------------------------------------------------------------------------
\* Bounds of the model (not program constants)
\* ------------------------------------------------------------------------
\* longest label list the add buttons are allowed to build
MaxItems == 4
\* number of user events explored in one session of the UI
MaxEvents == 4
\* largest slider position a modelled user picks besides the extreme 9
MaxRaw == 2
\* largest order of a matrix handed to the solver with an explicit maxIter
MaxOrder == 3
\* largest slider position behind the entries of such a matrix
MaxSolveRaw == 2
\* largest explicit maxIter the solver is run with on an inconsistent matrix
ItCap == 2
\* largest order of a matrix handed to consistency
MaxConsOrder == 12
\* lambdaMax is tried at n - 1/4, n, n + 1/4, ... n + MaxLambdaSteps/4
MaxLambdaSteps == 4
\* largest number of criteria and of alternatives of a state object on the heap
MaxCoreOrder == 3
\* largest number of criteria and of alternatives of a state handed to computeResults
MaxResultsOrder == 3
\* largest order of a matrix handed to inconsistencyHints
MaxHintOrder == 4
\* largest topK handed to inconsistencyHints
MaxTopK == 4
\* longest list and longest array of rows in a persisted value
MaxDocOrder == 3
\* largest consistency ratio classified, in hundredths
MaxBadgeHundredths == 30
\* largest n of identityMatrix(n) called on its own
MaxIdentityOrder == 4
\* most decimal digits the solver is run with when it rounds
MaxDigits == 4
\* largest judgment of the matrices the rounding solver is run on
MaxScenarioRaw == 5

\* ------------------------------------------------------------------------
\* Program constants
\* ------------------------------------------------------------------------
\* renderEditableList(..., 2): the minimum list length
minLen == 2
\* <input type="range" min="1" max="9">
SliderMin == 1
SliderMax == 9

\* ------------------------------------------------------------------------
\* State
\* ------------------------------------------------------------------------
\* a page session of the tool
VARIABLES
  build,      \* which build of the shared script the pages load
  page,       \* document.body.dataset.page of the page shown
  st,         \* the state object the page's handlers close over
  older,      \* the state objects of earlier runs of main() on this page
  storage,    \* localStorage[STORAGE_KEY]
  nEvents,    \* user events so far in this session
  lastEvent   \* the user event handled last

uiVars == <<build, page, st, older, storage, nEvents, lastEvent>>

\* one call of powerIterationWeights / ahpSolve, pass by pass
VARIABLES
  sA,         \* the matrix argument
  sMaxIter,   \* the maxIter argument
  sTolExp,    \* the tol argument, as the exponent of 10^-tolExp
  sIt,        \* the loop counter
  sW,         \* the weight vector
  sIters,     \* passes of the loop body executed so far
  sDiff,      \* diff of the last pass
  sPc,        \* "loop", "post" (the loop has been left) or "done"
  sOut        \* what ahpSolve returned

solveVars == <<sA, sMaxIter, sTolExp, sIt, sW, sIters, sDiff, sPc, sOut>>

\* one call of a core function on matrices that live on the heap
VARIABLES
  heap,       \* row address -> row
  hSt,        \* the state object; its matrices are arrays of row addresses
  cCall,      \* the call made: function and arguments
  cOut        \* its outcome

coreVars == <<heap, hSt, cCall, cOut>>

\* one call of consistency(A, lambdaMax)
VARIABLES
  kA,         \* the matrix argument (only its order is read)
  kLambda,    \* the lambdaMax argument
  kPc,        \* "call" or "done"
  kOut        \* the returned {ci, cr}

consVars == <<kA, kLambda, kPc, kOut>>

\* one call of computeResults(st)
VARIABLES
  rSt,        \* the state object argument
  rMaxIter,   \* the maxIter its calls of the solver run with
  rPc,        \* "call" or "done"
  rOut        \* the returned finalScores and ranking

resultsVars == <<rSt, rMaxIter, rPc, rOut>>

\* one call of inconsistencyHints(labels, A, topK)
VARIABLES
  hA,         \* the matrix argument
  hTopK,      \* the topK argument
  hPc,        \* "call" or "done"
  hOut        \* the issues recorded and the hints returned

hintsVars == <<hA, hTopK, hPc, hOut>>

\* one call of loadState() on a persisted value
VARIABLES
  lDoc,       \* localStorage[STORAGE_KEY] before the call
  lPc,        \* "call" or "done"
  lOut        \* the outcome: whether it raised, and the state returned

loadVars == <<lDoc, lPc, lOut>>

\* one call of a function of the page helpers or of the core
VARIABLES
  fCall,      \* the function called and its arguments
  fPc,        \* "call" or "done"
  fOut        \* what it returned

callVars == <<fCall, fPc, fOut>>

auxVars == <<resultsVars, hintsVars, loadVars, callVars>>

vars == <<uiVars, solveVars, coreVars, consVars, auxVars>>

\* ------------------------------------------------------------------------
\* JavaScript numbers
\* ------------------------------------------------------------------------
Abs(x) == IF x < 0 THEN -x ELSE x

Sign(x) == IF x > 0 THEN 1 ELSE IF x < 0 THEN -1 ELSE 0

RECURSIVE GCD(_, _)
GCD(a, b) == IF b = 0 THEN a ELSE GCD(b, a % b)

\* the number n/d, in lowest terms; n/0 is an infinity or NaN
Num(n, d) ==
  IF d = 0 THEN <<Sign(n), 0>>
  ELSE LET g == GCD(Abs(n), Abs(d))
       IN  <<Sign(d) * (n \div g), Abs(d) \div g>>

Whole(n) == <<n, 1>>
Zero == <<0, 1>>
One == <<1, 1>>
NaN == <<0, 0>>
Infinity == <<1, 0>>

IsNaN(x) == x = NaN
\* Number.isFinite
IsFinite(x) == x[2] # 0

\* x + y
Plus(x, y) ==
  IF IsNaN(x) \/ IsNaN(y) THEN NaN
  ELSE IF ~IsFinite(x) /\ ~IsFinite(y) THEN (IF x = y THEN x ELSE NaN)
  ELSE IF ~IsFinite(x) THEN x
  ELSE IF ~IsFinite(y) THEN y
  ELSE LET g == GCD(x[2], y[2])
       IN  Num(x[1] * (y[2] \div g) + y[1] * (x[2] \div g), (x[2] \div g) * y[2])

Neg(x) == <<-x[1], x[2]>>

\* x - y
Minus(x, y) == Plus(x, Neg(y))

\* x * y (cross-cancelled before multiplying, so that products stay small)
Times(x, y) ==
  IF ~IsFinite(x) \/ ~IsFinite(y) THEN Num(x[1] * y[1], 0)
  ELSE LET g1 == GCD(Abs(x[1]), y[2])
           g2 == GCD(Abs(y[1]), x[2])
       IN  Num((x[1] \div g1) * (y[1] \div g2), (x[2] \div g2) * (y[2] \div g1))

\* 1 / x
Recip(x) ==
  IF x = Zero THEN Infinity ELSE Num(Sign(x[1]) * x[2], Abs(x[1]))

\* x / y
Over(x, y) ==
  IF IsNaN(x) \/ IsNaN(y) THEN NaN
  ELSE IF ~IsFinite(x) /\ ~IsFinite(y) THEN NaN
  ELSE Times(x, Recip(y))

\* x < y (false when either side is NaN)
Less(x, y) ==
  IF IsNaN(x) \/ IsNaN(y) THEN FALSE
  ELSE IF ~IsFinite(x) \/ ~IsFinite(y)
       THEN (IF IsFinite(x) THEN y = Infinity
             ELSE IF IsFinite(y) THEN x # Infinity
             ELSE x # Infinity /\ y = Infinity)
  ELSE LET g == GCD(x[2], y[2])
       IN  x[1] * (y[2] \div g) < y[1] * (x[2] \div g)

\* x <= y
LessEq(x, y) == Less(x, y) \/ (~IsNaN(x) /\ x = y)

\* Math.abs
MathAbs(x) == <<Abs(x[1]), x[2]>>

\* Math.max(x, y): NaN if either argument is NaN
MathMax(x, y) ==
  IF IsNaN(x) \/ IsNaN(y) THEN NaN ELSE IF Less(x, y) THEN y ELSE x

\* Math.min(x, y)
MathMin(x, y) ==
  IF IsNaN(x) \/ IsNaN(y) THEN NaN ELSE IF Less(y, x) THEN y ELSE x

\* Math.round of a finite number: floor(x + 1/2)
MathRound(x) ==
  IF ~IsFinite(x) THEN x
  ELSE LET m == 2 * x[1] + x[2]
           d == 2 * x[2]
       IN  Whole((m - (m % d)) \div d)

\* ------------------------------------------------------------------------
\* JavaScript arrays: functions over 0..n-1
\* ------------------------------------------------------------------------
length(a) == Cardinality(DOMAIN a)

EmptyArray == [k \in {} |-> 0]

\* a.push(x)
push(a, x) == [k \in 0..length(a) |-> IF k < length(a) THEN a[k] ELSE x]

\* a.filter((_, k) => k !== i)
removeAt(a, i) ==
  [k \in 0..(length(a) - 2) |-> IF k < i THEN a[k] ELSE a[k + 1]]

\* next = a.slice(); next[i] = x
replaceAt(a, i, x) == [a EXCEPT ![i] = x]

\* ------------------------------------------------------------------------
\* Matrices.  A matrix value is an array of rows, a row an array of numbers.
\* On the heap a matrix is an array of row addresses: two matrices that hold
\* the same address share that row, as two JavaScript arrays holding the
\* same inner array do.
\* ------------------------------------------------------------------------
\* mutant: the identity matrix of linear algebra
identityMatrix_kronecker(n) ==
  [i \in 0..(n - 1) |-> [j \in 0..(n - 1) |-> IF i = j THEN One ELSE Zero]]

\* identityMatrix(n): every cell is 1, on and off the diagonal
identityMatrix(n) ==
  [i \in 0..(n - 1) |-> [j \in 0..(n - 1) |-> IF i = j THEN One ELSE One]]

EmptyHeap == [a \in {} |-> EmptyArray]

\* the first address not in use
NextAddr(H) == Cardinality(DOMAIN H)

\* the matrix value a heap matrix M denotes
Deref(H, M) == [k \in DOMAIN M |-> H[M[k]]]

\* the rows of the value A stored at fresh addresses
Alloc(H, A) ==
  LET base == NextAddr(H)
      n == length(A)
  IN  [heap |-> [a \in 0..(base + n - 1) |-> IF a < base THEN H[a] ELSE A[a - base]],
       mat |-> [k \in 0..(n - 1) |-> base + k]]

\* mutant: A.slice(), a new outer array that shares the rows of A
cloneMatrix_shallow(H, M) == [heap |-> H, mat |-> M]

\* A.map(r => r.slice()): a new outer array of new rows
cloneMatrix(H, M) == Alloc(H, Deref(H, M))

\* M[i][j] = v
WriteCell(H, M, i, j, v) == [H EXCEPT ![M[i]] = [@ EXCEPT ![j] = v]]

\* for(let k=0;k<B.length;k++) B[k][k] = 1, from k on
RECURSIVE WriteDiagonal(_, _, _)
WriteDiagonal(H, M, k) ==
  IF k >= length(M) THEN H
  ELSE WriteDiagonal(WriteCell(H, M, k, k, One), M, k + 1)

\* setPairwise throws a TypeError when B[i] or B[j] is undefined
setPairwiseThrows(M, i, j) == i \notin DOMAIN M \/ j \notin DOMAIN M

\* mutant: the reciprocal cell B[j][i] is not written
setPairwise_noReciprocal(H, M, i, j, v) ==
  LET c == cloneMatrix(H, M)
      B == c.mat
      H1 == WriteCell(c.heap, B, i, j, v)
  IN  [heap |-> WriteDiagonal(H1, B, 0), mat |-> B]

\* mutant: the value and its reciprocal are written to each other's cell
setPairwise_swapped(H, M, i, j, v) ==
  LET c == cloneMatrix(H, M)
      B == c.mat
      H1 == WriteCell(c.heap, B, j, i, v)
      H2 == WriteCell(H1, B, i, j, Over(One, v))
  IN  [heap |-> WriteDiagonal(H2, B, 0), mat |-> B]

\* setPairwise(A, i, j, v) for indices in range: the heap after the call and
\* the returned matrix
setPairwise(H, M, i, j, v) ==
  LET c == cloneMatrix(H, M)
      B == c.mat
      H1 == WriteCell(c.heap, B, i, j, v)
      H2 == WriteCell(H1, B, j, i, Over(One, v))
  IN  [heap |-> WriteDiagonal(H2, B, 0), mat |-> B]

\* setPairwise on matrix values, as the handlers use it: the input is not
\* referenced again once the result replaces it
setPairwiseValue(A, i, j, v) ==
  LET a == Alloc(EmptyHeap, A)
      r == setPairwise(a.heap, a.mat, i, j, v)
  IN  Deref(r.heap, r.mat)

\* ------------------------------------------------------------------------
\* The solver: power iteration, the eigenvalue estimate, the consistency ratio
\* ------------------------------------------------------------------------
\* powerIterationWeights(A, maxIter=1500, tol=1e-11) in app.js and part_000
MaxIterApp == 1500
\* the tolerance 1e-11 as its decimal exponent
TolExpApp == 11
\* powerIterationWeights(A, maxIter=1000, tol=1e-10) in part_001
MaxIterSingle == 1000
TolExpSingle == 10

\* b > a * 10^k for integers a >= 0, b >= 1, without forming a * 10^k
RECURSIVE ExceedsPow10(_, _, _)
ExceedsPow10(b, a, k) ==
  IF k = 0 THEN b > a ELSE ExceedsPow10(((b - 1) \div 10) + 1, a, k - 1)

\* diff < tol for tol = 10^-tolExp (false for NaN)
BelowTol(diff, tolExp) ==
  /\ IsFinite(diff)
  /\ \/ diff[1] < 0
     \/ diff[1] = 0
     \/ diff[1] > 0 /\ ExceedsPow10(diff[2], diff[1], tolExp)

\* let s=0; for(j=0;j<n;j++) s += A[i][j] * w[j]  -- the sum of the terms j..n-1
\* added to s in index order
RECURSIVE RowDot(_, _, _, _)
RowDot(row, w, j, s) ==
  IF j >= length(w) THEN s
  ELSE RowDot(row, w, j + 1, Plus(s, Times(row[j], w[j])))

\* A . w
MatVec(A, w) == [i \in DOMAIN A |-> RowDot(A[i], w, 0, Zero)]

\* a.reduce((x,y)=>x+y, 0), from index k with accumulator s
RECURSIVE SumFrom(_, _, _)
SumFrom(a, k, s) == IF k >= length(a) THEN s ELSE SumFrom(a, k + 1, Plus(s, a[k]))

Sum(a) == SumFrom(a, 0, Zero)

\* diff = Math.max(diff, Math.abs(wNew[i] - w[i])) for i = k..n-1
RECURSIVE MaxChange(_, _, _, _)
MaxChange(wNew, w, k, diff) ==
  IF k >= length(w) THEN diff
  ELSE MaxChange(wNew, w, k + 1, MathMax(diff, MathAbs(Minus(wNew[k], w[k]))))

\* Array(n).fill(1/n)
UniformWeights(n) == [i \in 0..(n - 1) |-> Over(One, Whole(n))]

\* mutant: the new weights are not divided by their sum
IterBody_unnormalised(A, w) ==
  LET Aw == MatVec(A, w)
  IN  [w |-> Aw, diff |-> MaxChange(Aw, w, 0, Zero)]

\* one pass of the loop body: the new weights and the largest change
IterBody(A, w) ==
  LET Aw == MatVec(A, w)
      sum == Sum(Aw)
      wNew == [i \in DOMAIN Aw |-> Over(Aw[i], sum)]
  IN  [w |-> wNew, diff |-> MaxChange(wNew, w, 0, Zero)]

\* for(let it=0; it<maxIter; it++){ ...; if(diff < tol) break; }
RECURSIVE PowerLoop(_, _, _, _, _)
PowerLoop(A, w, it, maxIter, tolExp) ==
  IF it >= maxIter THEN w
  ELSE LET b == IterBody(A, w)
       IN  IF BelowTol(b.diff, tolExp) THEN b.w
           ELSE PowerLoop(A, b.w, it + 1, maxIter, tolExp)

\* Aw2.reduce((a,v,i)=> a + v / w[i], 0), from index k
RECURSIVE QuotientSum(_, _, _, _)
QuotientSum(Aw2, w, k, s) ==
  IF k >= length(w) THEN s
  ELSE QuotientSum(Aw2, w, k + 1, Plus(s, Over(Aw2[k], w[k])))

\* lambdaMax = sum_i (A w)[i] / w[i], divided by n
LambdaEstimate(A, w) ==
  Over(QuotientSum(MatVec(A, w), w, 0, Zero), Whole(length(A)))

powerIterationWeights(A, maxIter, tolExp) ==
  LET w == PowerLoop(A, UniformWeights(length(A)), 0, maxIter, tolExp)
  IN  [weights |-> w, lambdaMax |-> LambdaEstimate(A, w)]

\* the Random Index table RI, in hundredths; RI[n] ?? 1.49
RITable == <<0, 0, 58, 90, 112, 124, 132, 141, 145, 149>>

RandomIndex(n) == IF n \in 1..Len(RITable) THEN Num(RITable[n], 100) ELSE Num(149, 100)

\* mutant: cr = ci / ri without the test for ri === 0
consistency_noZeroGuard(A, lambdaMax) ==
  LET n == length(A)
      ci == Over(Minus(lambdaMax, Whole(n)), Whole(n - 1))
  IN  [ci |-> ci, cr |-> Over(ci, RandomIndex(n))]

\* consistency(A, lambdaMax)
consistency(A, lambdaMax) ==
  LET n == length(A)
      ci == Over(Minus(lambdaMax, Whole(n)), Whole(n - 1))
      ri == RandomIndex(n)
      cr == IF ri = Zero THEN Zero ELSE Over(ci, ri)
  IN  [ci |-> ci, cr |-> cr]

\* ahpSolve with the defaults of powerIterationWeights made explicit
ahpSolveWith(A, maxIter, tolExp) ==
  LET p == powerIterationWeights(A, maxIter, tolExp)
      c == consistency(A, p.lambdaMax)
  IN  [weights |-> p.weights, lambdaMax |-> p.lambdaMax, ci |-> c.ci, cr |-> c.cr]

\* ahpSolve(A) of app.js
ahpSolve(A) == ahpSolveWith(A, MaxIterApp, TolExpApp)

\* ------------------------------------------------------------------------
\* Array.prototype.sort and slice, as computeResults and inconsistencyHints
\* use them
\* ------------------------------------------------------------------------
\* a.slice(0, k) for k >= 0
slice(a, k) ==
  LET m == IF k < length(a) THEN k ELSE length(a)
  IN  [x \in 0..(m - 1) |-> a[x]]

\* mutant: the comparator also asks for b before a when the scores are equal
ComesBefore_onTies(b, a) == LessEq(Zero, Minus(b.score, a.score))

\* mutant: the comparator (a, b) => a.score - b.score
ComesBefore_ascending(b, a) == Less(Zero, Minus(a.score, b.score))

\* the comparator (a, b) => b.score - a.score asks for b before a: its result
\* is positive (a NaN result counts as 0)
ComesBefore(b, a) == Less(Zero, Minus(b.score, a.score))

\* x inserted into the sorted array a: it moves left past every element it
\* comes before, starting at position k = length(a)
RECURSIVE InsertSorted(_, _, _)
InsertSorted(a, x, k) ==
  IF k > 0 /\ ComesBefore(x, a[k - 1])
  THEN InsertSorted(a, x, k - 1)
  ELSE [y \in 0..length(a) |-> IF y < k THEN a[y] ELSE IF y = k THEN x ELSE a[y - 1]]

\* a.sort((a, b) => b.score - a.score): a stable sort, the elements a[k..]
\* inserted one by one into the sorted array done
RECURSIVE SortFrom(_, _, _)
SortFrom(a, k, done) ==
  IF k >= length(a) THEN done
  ELSE SortFrom(a, k + 1, InsertSorted(done, a[k], length(done)))

sortByScore(a) == SortFrom(a, 0, EmptyArray)

\* ------------------------------------------------------------------------
\* computeResults: the weighted-sum synthesis and the ranking
\* ------------------------------------------------------------------------
\* let s=0; for(j=0;j<n;j++) s += crit.weights[j] * altSolves[j].weights[i]
RECURSIVE ScoreSum(_, _, _, _, _, _)
ScoreSum(critW, altW, i, j, n, acc) ==
  IF j >= n THEN acc
  ELSE ScoreSum(critW, altW, i, j + 1, n, Plus(acc, Times(critW[j], altW[j][i])))

\* mutant: the sum over the criteria starts at j = 1
finalScores_skipFirst(critW, altW, m, n) ==
  [i \in 0..(m - 1) |-> ScoreSum(critW, altW, i, 1, n, Zero)]

\* mutant: the score of alternative i is read from the weights of alternative 0
finalScores_firstAlternative(critW, altW, m, n) ==
  [i \in 0..(m - 1) |-> ScoreSum(critW, altW, 0, 0, n, Zero)]

\* const scores = Array(m).fill(0); for(i=0;i<m;i++){ ...; scores[i]=s }
finalScores(critW, altW, m, n) ==
  [i \in 0..(m - 1) |-> ScoreSum(critW, altW, i, 0, n, Zero)]

\* st.alternatives.map((name,i)=>({ name, score: scores[i] })).sort(...)
rankingOf(alternatives, scores) ==
  sortByScore([i \in DOMAIN alternatives |-> [name |-> alternatives[i], score |-> scores[i]]])

\* the object computeResults returns, given the scores
ResultsObject(s, crit, altW, scores) ==
  [criteriaWeights |-> crit.weights,
   criteriaCR |-> crit.cr,
   altWeightsByCriterion |-> altW,
   finalScores |-> scores,
   ranking |-> rankingOf(s.alternatives, scores)]

\* computeResults after its calls of the solver: the scores and the ranking
ResultsFrom(s, crit, altSolves) ==
  ResultsObject(s, crit, [c \in DOMAIN altSolves |-> altSolves[c].weights],
                finalScores(crit.weights, [c \in DOMAIN altSolves |-> altSolves[c].weights],
                            length(s.alternatives), length(s.criteria)))

\* computeResults(st), with the maxIter and tol of its calls of the solver
\* made explicit
computeResultsWith(s, maxIter, tolExp) ==
  ResultsFrom(s, ahpSolveWith(s.criteriaMatrix, maxIter, tolExp),
              [c \in DOMAIN s.altMatrices |-> ahpSolveWith(s.altMatrices[c], maxIter, tolExp)])

\* computeResults(st) of app.js
computeResults(s) == computeResultsWith(s, MaxIterApp, TolExpApp)

\* ------------------------------------------------------------------------
\* inconsistencyHints.  A score d = |ln direct - ln via| is not a rational:
\* it is carried as e^d = max(direct/via, via/direct), which is at least 1
\* and orders as d does (d > d' iff e^d > e^d'; d = 0 iff e^d = 1).  The
\* comparator of the sort takes the difference of two scores; for scores
\* carried this way the difference of the carriers has the same sign.
\* ------------------------------------------------------------------------
\* topK=3, the default of the third parameter
topKDefault == 3

\* the score 0
NoGap == One

\* Math.abs(Math.log(direct) - Math.log(via)), direct and via positive finite
LogGap(direct, via) ==
  LET q == Over(direct, via)
  IN  IF Less(q, One) THEN Over(One, q) ELSE q

\* !Number.isFinite(x) || x <= 0
Unusable(x) == ~IsFinite(x) \/ LessEq(x, Zero)

\* if(d > best)
Improves(d, best) == Less(best, d)

\* the loop over k = k0..n-1 for the pair (i, j): best and bestK after it
RECURSIVE BestWitness(_, _, _, _, _, _)
BestWitness(A, n, i, j, k, acc) ==
  IF k >= n THEN acc
  ELSE IF k = i \/ k = j \/ Unusable(Times(A[i][k], A[k][j]))
       THEN BestWitness(A, n, i, j, k + 1, acc)
       ELSE LET d == LogGap(A[i][j], Times(A[i][k], A[k][j]))
            IN  IF Improves(d, acc.best)
                THEN BestWitness(A, n, i, j, k + 1, [best |-> d, bestK |-> k])
                ELSE BestWitness(A, n, i, j, k + 1, acc)

\* the text of an issue names the pair and the witness by their labels
IssueText(labels, i, j, k) == <<labels[i], labels[j], labels[k]>>

\* the two loops over the pairs i < j, from the pair (i, j) on: the issues
\* array after them.  A pair is pushed only if(bestK >= 0)
RECURSIVE CollectIssues(_, _, _, _, _, _)
CollectIssues(labels, A, n, i, j, issues) ==
  IF i >= n THEN issues
  ELSE IF j >= n THEN CollectIssues(labels, A, n, i + 1, i + 2, issues)
  ELSE IF Unusable(A[i][j]) THEN CollectIssues(labels, A, n, i, j + 1, issues)
  ELSE LET bw == BestWitness(A, n, i, j, 0, [best |-> NoGap, bestK |-> -1])
       IN  IF bw.bestK >= 0
           THEN CollectIssues(labels, A, n, i, j + 1,
                  push(issues, [score |-> bw.best,
                                text |-> IssueText(labels, i, j, bw.bestK)]))
           ELSE CollectIssues(labels, A, n, i, j + 1, issues)

\* the issues array before it is sorted
recordedIssues(labels, A) == CollectIssues(labels, A, length(labels), 0, 1, EmptyArray)

\* mutant: every recorded issue is returned
inconsistencyHints_unsliced(labels, A, topK) == sortByScore(recordedIssues(labels, A))

\* inconsistencyHints(labels, A, topK)
inconsistencyHints(labels, A, topK) == slice(sortByScore(recordedIssues(labels, A)), topK)

\* ------------------------------------------------------------------------
\* ahpSolve in rounded arithmetic.  The program computes in binary64, every
\* operation rounded to nearest; run to convergence on an inconsistent
\* matrix, exact fractions outgrow 32-bit integers.  Here a
\* weight is an integer count of units 1/scale and every product and
\* quotient is rounded to the nearest unit.
\* ------------------------------------------------------------------------
RECURSIVE Pow10(_)
Pow10(d) == IF d = 0 THEN 1 ELSE 10 * Pow10(d - 1)

\* a / b rounded to the nearest integer, a >= 0, b > 0
RoundDiv(a, b) == (2 * a + b) \div (2 * b)

\* s += A[i][j] * w[j], the terms j..n-1
RECURSIVE RowDotRounded(_, _, _, _)
RowDotRounded(row, w, j, acc) ==
  IF j >= length(w) THEN acc
  ELSE RowDotRounded(row, w, j + 1, acc + RoundDiv(row[j][1] * w[j], row[j][2]))

\* mutant: the columns of A are multiplied, not its rows
MatVecRounded_columns(A, w) ==
  [i \in DOMAIN A |-> RowDotRounded([j \in DOMAIN A |-> A[j][i]], w, 0, 0)]

\* for(i) { let s=0; for(j) s += A[i][j] * w[j]; Aw[i]=s; }
MatVecRounded(A, w) == [i \in DOMAIN A |-> RowDotRounded(A[i], w, 0, 0)]

RECURSIVE SumRounded(_, _, _)
SumRounded(a, k, acc) == IF k >= length(a) THEN acc ELSE SumRounded(a, k + 1, acc + a[k])

RECURSIVE MaxChangeRounded(_, _, _, _)
MaxChangeRounded(wNew, w, k, diff) ==
  IF k >= length(w) THEN diff
  ELSE LET d == Abs(wNew[k] - w[k])
       IN  MaxChangeRounded(wNew, w, k + 1, IF d > diff THEN d ELSE diff)

\* one pass of the loop body
IterBodyRounded(A, w, scale) ==
  LET Aw == MatVecRounded(A, w)
      sum == SumRounded(Aw, 0, 0)
      wNew == [i \in DOMAIN Aw |-> RoundDiv(Aw[i] * scale, sum)]
  IN  [w |-> wNew, diff |-> MaxChangeRounded(wNew, w, 0, 0)]

\* let w = Array.from({length:n}, ()=> 1/n)
startWeightsRounded(A, scale) == [i \in DOMAIN A |-> RoundDiv(scale, length(A))]

\* Aw2.reduce((a,v,i)=> a + v / w[i], 0), from index k, in units 1/scale
RECURSIVE QuotientSumRounded(_, _, _, _, _)
QuotientSumRounded(Aw2, w, k, acc, scale) ==
  IF k >= length(w) THEN acc
  ELSE QuotientSumRounded(Aw2, w, k + 1, acc + RoundDiv(Aw2[k] * scale, w[k]), scale)

\* what ahpSolve(A) returns once the loop has left the weights w, in units
\* 1/scale
ahpSolveRounded(A, w, scale) ==
  LET n == length(A)
      lambdaMax == Over(Num(QuotientSumRounded(MatVecRounded(A, w), w, 0, 0, scale), scale),
                        Whole(n))
      c == consistency(A, lambdaMax)
  IN  [weights |-> [i \in DOMAIN A |-> Num(w[i], scale)],
       lambdaMax |-> lambdaMax, ci |-> c.ci, cr |-> c.cr]

\* ------------------------------------------------------------------------
\* The badge of a consistency ratio: the level it is classified at
\* ------------------------------------------------------------------------
\* crMessage(cr).level of app.js and part_000
crMessage(cr) ==
  IF LessEq(cr, Num(10, 100)) THEN "good"
  ELSE IF LessEq(cr, Num(20, 100)) THEN "mid"
  ELSE "warn"

\* crToBadge(cr) of part_001: const ok = cr <= 0.10; "badge good" or
\* "badge warn"
crToBadge(cr) == IF LessEq(cr, Num(10, 100)) THEN "good" ELSE "warn"

\* ------------------------------------------------------------------------
\* The state object and its persisted snapshot
\* ------------------------------------------------------------------------
Builds == {"app.js", "part_000"}
Pages == {"setup", "matrices", "results"}

\* what a user types into a label or problem field
TypedText == {"X"}

\* slider positions a modelled user releases the slider at
RawInputs == (SliderMin..MaxRaw) \cup {SliderMax}

\* mutant: only the criteria matrix is rebuilt
initMatrices_criteriaOnly(s) ==
  [s EXCEPT !.criteriaMatrix = identityMatrix(length(s.criteria))]

\* initMatrices(st)
initMatrices(s) ==
  [s EXCEPT !.criteriaMatrix = identityMatrix(length(s.criteria)),
            !.altMatrices = [c \in DOMAIN s.criteria |->
                               identityMatrix(length(s.alternatives))]]

\* defaultState()
defaultState ==
  initMatrices(
    [problem |-> [name |-> "Logistics", goal |-> "Select the best warehouse location"],
     criteria |-> [k \in 0..2 |-> <<"Transportation cost", "Delivery lead time",
                                    "Service reliability">>[k + 1]],
     alternatives |-> [k \in 0..2 |-> <<"Location A", "Location B", "Location C">>[k + 1]],
     criteriaMatrix |-> EmptyArray,
     altMatrices |-> EmptyArray,
     activeCritIdx |-> 0])

\* JSON has no NaN or Infinity: JSON.stringify writes them as null
JsonNull == <<0, -1>>

\* mutant: a number is written without its fraction
JsonNumber_rounded(x) == IF IsFinite(x) THEN MathRound(x) ELSE JsonNull

\* a finite number is written with the digits that read back as the same
\* number
JsonNumber(x) == IF IsFinite(x) THEN x ELSE JsonNull

JsonMatrix(A) == [i \in DOMAIN A |-> [j \in DOMAIN A[i] |-> JsonNumber(A[i][j])]]

\* JSON.parse(JSON.stringify(st))
JsonRoundTrip(s) ==
  [s EXCEPT !.criteriaMatrix = JsonMatrix(s.criteriaMatrix),
            !.altMatrices = [c \in DOMAIN s.altMatrices |-> JsonMatrix(s.altMatrices[c])]]

NoSnapshot == [present |-> FALSE, value |-> defaultState]

\* saveState(st): the snapshot in storage afterwards
saveState(s) == [present |-> TRUE, value |-> JsonRoundTrip(s)]

\* loadState() on a snapshot that saveState wrote
loadState(raw) ==
  IF ~raw.present THEN defaultState
  ELSE
    LET s0 == raw.value
        s1 == IF s0.activeCritIdx < 0 THEN [s0 EXCEPT !.activeCritIdx = 0] ELSE s0
        s2 == IF s1.activeCritIdx >= length(s1.criteria)
              THEN [s1 EXCEPT !.activeCritIdx = 0] ELSE s1
        s3 == IF length(s2.criteriaMatrix) # length(s2.criteria) THEN initMatrices(s2) ELSE s2
        s4 == IF length(s3.altMatrices) # length(s3.criteria) THEN initMatrices(s3) ELSE s3
        s5 == IF \E c \in DOMAIN s4.altMatrices :
                   length(s4.altMatrices[c]) # length(s4.alternatives)
              THEN initMatrices(s4) ELSE s4
    IN  s5

\* ------------------------------------------------------------------------
\* loadState() on any persisted value.  loadState reads of it only whether it
\* parses, which fields are truthy or arrays, and lengths; a value is carried
\* as far as that: a list as its labels, a matrix as the lengths of its rows
\* ------------------------------------------------------------------------
\* an element that is not an array (a number, a string, null, an object)
NotArray == -1

\* a field that is not an array, or is missing
NoList == [isArray |-> FALSE, items |-> EmptyArray]
NoMatrix == [isArray |-> FALSE, ones |-> FALSE, rows |-> EmptyArray]
NoMatrices == [isArray |-> FALSE, mats |-> EmptyArray]

\* an array of labels
ListOf(items) == [isArray |-> TRUE, items |-> items]

\* identityMatrix(n) as the lengths of its rows; ones: every cell is 1
identityShape(n) == [isArray |-> TRUE, ones |-> TRUE, rows |-> [k \in 0..(n - 1) |-> n]]

\* a stored array with elements of the lengths rows (NotArray: not an array)
ShapeOf(rows) == [isArray |-> TRUE, ones |-> FALSE, rows |-> rows]

\* initMatrices(st) on a value whose criteria and alternatives are arrays
initMatricesOf(d) ==
  [d EXCEPT !.criteriaMatrix = identityShape(length(d.criteria.items)),
            !.altMatrices = [isArray |-> TRUE,
                             mats |-> [c \in DOMAIN d.criteria.items |->
                                         identityShape(length(d.alternatives.items))]]]

\* the number 0.  A persisted activeCritIdx is carried as whether it is a
\* number, its integer part val and whether a half follows (val + 1/2): for
\* an integer n, x < n is val < n and x >= n is val >= n
ZeroIndex == [isNumber |-> TRUE, val |-> 0, half |-> FALSE]

\* defaultState() carried the same way
defaultStateOf ==
  initMatricesOf(
    [kind |-> "object",
     problem |-> TRUE,
     criteria |-> ListOf(defaultState.criteria),
     alternatives |-> ListOf(defaultState.alternatives),
     criteriaMatrix |-> NoMatrix,
     altMatrices |-> NoMatrices,
     activeCritIdx |-> ZeroIndex])

\* what a call of loadState ends with
Returned(d, fresh) == [threw |-> FALSE, fresh |-> fresh, state |-> d]

\* loadState(), line by line.  kind "none": no item is stored; "garbage":
\* JSON.parse throws inside the try; "null": st.problem throws inside the try;
\* "scalar": a number, string or boolean, whose st.problem is undefined
loadStateOf(doc) ==
  IF doc.kind = "none" THEN Returned(defaultStateOf, TRUE)
  ELSE IF doc.kind \in {"garbage", "null"} THEN Returned(defaultStateOf, TRUE)
  ELSE IF doc.kind = "scalar" THEN Returned(defaultStateOf, TRUE)
  ELSE IF ~doc.problem \/ ~doc.criteria.isArray \/ ~doc.alternatives.isArray
       THEN Returned(defaultStateOf, TRUE)
  ELSE
    LET nC == length(doc.criteria.items)
        nA == length(doc.alternatives.items)
        s1 == IF ~doc.criteriaMatrix.isArray \/ ~doc.altMatrices.isArray
              THEN initMatricesOf(doc) ELSE doc
        s2 == IF ~s1.activeCritIdx.isNumber
              THEN [s1 EXCEPT !.activeCritIdx = ZeroIndex] ELSE s1
        s3 == IF s2.activeCritIdx.val < 0 THEN [s2 EXCEPT !.activeCritIdx = ZeroIndex] ELSE s2
        s4 == IF s3.activeCritIdx.val >= nC THEN [s3 EXCEPT !.activeCritIdx = ZeroIndex] ELSE s3
        s5 == IF length(s4.criteriaMatrix.rows) # nC THEN initMatricesOf(s4) ELSE s4
        s6 == IF length(s5.altMatrices.mats) # nC THEN initMatricesOf(s5) ELSE s5
        s7 == IF \E c \in DOMAIN s6.altMatrices.mats :
                   \/ ~s6.altMatrices.mats[c].isArray
                   \/ length(s6.altMatrices.mats[c].rows) # nA
              THEN initMatricesOf(s6) ELSE s6
    IN  Returned(s7, FALSE)

\* the part of renderMatricesPage that writes the state: activeCritIdx is
\* normalised before the active alternatives matrix is read
renderMatricesPage(s) ==
  IF s.activeCritIdx < 0 \/ s.activeCritIdx >= length(s.criteria)
  THEN [s EXCEPT !.activeCritIdx = 0] ELSE s

\* the state object after main() has rendered page p from storage
mainState(p, raw) ==
  LET s == loadState(raw)
  IN  IF p = "matrices" THEN renderMatricesPage(s) ELSE s

\* ------------------------------------------------------------------------
\* The pairwise rows: what a row shows and what its handlers commit
\* ------------------------------------------------------------------------
\* the pairs (i, j), i < j, a pairwise block renders a row for
PairRows(n) == {p \in (0..(n - 1)) \X (0..(n - 1)) : p[1] < p[2]}

\* pairwiseUI: the slider position rendered for A[i][j]
sliderValue(aij) ==
  LET v == IF Less(aij, One) THEN Over(One, aij) ELSE aij
  IN  MathMin(Whole(SliderMax), MathMax(Whole(SliderMin), MathRound(v)))

\* bindPairwiseHandlers: let preferRight = A[i][j] < 1
preferRightOf(aij) == Less(aij, One)

\* mutant: the sides are exchanged
commit_sidesSwapped(A, i, j, raw, preferRight) ==
  setPairwiseValue(A, i, j, IF preferRight THEN raw ELSE Over(One, raw))

\* commit(): the matrix handed to onUpdate
commit(A, i, j, raw, preferRight) ==
  setPairwiseValue(A, i, j, IF preferRight THEN Over(One, raw) ELSE raw)

\* the three events of a row, as (raw, preferRight) at the time commit() runs:
\* the slider released at r, a click on Left, a click on Right
RowEvents(aij) ==
  {<<Whole(r), preferRightOf(aij)>> : r \in RawInputs}
    \cup {<<sliderValue(aij), FALSE>>, <<sliderValue(aij), TRUE>>}

\* ------------------------------------------------------------------------
\* The handlers of the three pages (src/app.js; part_000 differs only in
\* binding the alternatives block)
\* ------------------------------------------------------------------------
UserEvent == nEvents < MaxEvents /\ nEvents' = nEvents + 1

\* every matrix of the state object is all ones
AllOnes(s) ==
  /\ s.criteriaMatrix = identityMatrix(length(s.criteria))
  /\ \A c \in DOMAIN s.altMatrices :
       s.altMatrices[c] = identityMatrix(length(s.alternatives))

\* the record of a user event: the control it arrived at and, for a pairwise
\* row, the block, the pair, and rng.value and preferRight when commit() ran;
\* dirty tells whether some matrix held a judgment when the event arrived;
\* objects counts the state objects its listeners read, stale those of them
\* whose content was not that of the object the page shows
NoEvent ==
  [kind |-> "none", level |-> "none", i |-> 0, j |-> 0,
   raw |-> One, right |-> FALSE, dirty |-> FALSE, objects |-> 1, stale |-> 0]

Event(kind) == [NoEvent EXCEPT !.kind = kind, !.dirty = ~AllOnes(st)]

RowEvent(level, p, e) ==
  [Event("judgment") EXCEPT !.level = level, !.i = p[1], !.j = p[2],
                            !.raw = e[1], !.right = e[2]]

\* the state objects the listeners of the static buttons (prevBtn, nextBtn,
\* btnReset, btnExport) close over, in the order the listeners were added:
\* one per run of main() on this page
wiredObjects ==
  [k \in 0..length(older) |-> IF k < length(older) THEN older[k] ELSE st]

\* an event on a static button: each of its listeners runs
WiredEvent(kind) ==
  [Event(kind) EXCEPT !.objects = length(wiredObjects),
                      !.stale = Cardinality({k \in DOMAIN older : older[k] # st})]

\* the listeners of prevBtn / nextBtn run in turn, each saveState(st) on its
\* own object: storage after the listeners from the k-th on
RECURSIVE SaveAll(_, _, _)
SaveAll(objs, k, store) ==
  IF k >= length(objs) THEN store ELSE SaveAll(objs, k + 1, saveState(objs[k]))

\* every handler ends with saveState(st)
Saved(s) == st' = s /\ storage' = saveState(s)

\* mutant: the handler leaves the snapshot as it was
SavedThenRendered_notSaved(s) == st' = renderMatricesPage(s) /\ UNCHANGED storage

\* the handlers of the matrices page: saveState(st); renderMatricesPage(st)
SavedThenRendered(s) == st' = renderMatricesPage(s) /\ storage' = saveState(s)

\* p_name / p_goal "input"
EditProblem ==
  /\ page = "setup" /\ UserEvent
  /\ lastEvent' = Event("editProblem")
  /\ \E t \in TypedText :
       \/ Saved([st EXCEPT !.problem.name = t])
       \/ Saved([st EXCEPT !.problem.goal = t])
  /\ UNCHANGED <<build, page, older, solveVars, coreVars, consVars, auxVars>>

\* mutant: the matrices are kept
criteriaOnChange_keepMatrices(s, arr) == [s EXCEPT !.criteria = arr, !.activeCritIdx = 0]

\* the onChange of the criteria list: a label edited or removed
criteriaOnChange(s, arr) ==
  initMatrices([s EXCEPT !.criteria = arr, !.activeCritIdx = 0])

\* the onChange of the alternatives list
alternativesOnChange(s, arr) == initMatrices([s EXCEPT !.alternatives = arr])

RenameCriterion ==
  /\ page = "setup" /\ UserEvent
  /\ lastEvent' = Event("renameCriterion")
  /\ \E i \in DOMAIN st.criteria, t \in TypedText :
       Saved(criteriaOnChange(st, replaceAt(st.criteria, i, t)))
  /\ UNCHANGED <<build, page, older, solveVars, coreVars, consVars, auxVars>>

\* mutant: the "-" button removes whatever the length
removeAllowed_always(items) == TRUE

\* the "-" button: if(items.length <= minLen) return
removeAllowed(items) == length(items) > minLen

\* a click on "-": the row is removed, or the click is refused (the button is
\* disabled and its handler returns) and nothing is changed or saved
RemoveCriterion ==
  /\ page = "setup" /\ UserEvent
  /\ IF removeAllowed(st.criteria)
     THEN /\ lastEvent' = Event("removeCriterion")
          /\ \E i \in DOMAIN st.criteria :
               Saved(criteriaOnChange(st, removeAt(st.criteria, i)))
     ELSE /\ lastEvent' = Event("removeRefused")
          /\ UNCHANGED <<st, storage>>
  /\ UNCHANGED <<build, page, older, solveVars, coreVars, consVars, auxVars>>

RenameAlternative ==
  /\ page = "setup" /\ UserEvent
  /\ lastEvent' = Event("renameAlternative")
  /\ \E i \in DOMAIN st.alternatives, t \in TypedText :
       Saved(alternativesOnChange(st, replaceAt(st.alternatives, i, t)))
  /\ UNCHANGED <<build, page, older, solveVars, coreVars, consVars, auxVars>>

RemoveAlternative ==
  /\ page = "setup" /\ UserEvent
  /\ IF removeAllowed(st.alternatives)
     THEN /\ lastEvent' = Event("removeAlternative")
          /\ \E i \in DOMAIN st.alternatives :
               Saved(alternativesOnChange(st, removeAt(st.alternatives, i)))
     ELSE /\ lastEvent' = Event("removeRefused")
          /\ UNCHANGED <<st, storage>>
  /\ UNCHANGED <<build, page, older, solveVars, coreVars, consVars, auxVars>>

\* crit_add: st.criteria.push(`C${st.criteria.length + 1}`); initMatrices(st)
AddCriterion ==
  /\ page = "setup" /\ UserEvent
  /\ lastEvent' = Event("addCriterion")
  /\ length(st.criteria) < MaxItems
  /\ Saved(initMatrices([st EXCEPT !.criteria =
              push(@, "C" \o ToString(length(st.criteria) + 1))]))
  /\ UNCHANGED <<build, page, older, solveVars, coreVars, consVars, auxVars>>

\* alt_add
AddAlternative ==
  /\ page = "setup" /\ UserEvent
  /\ lastEvent' = Event("addAlternative")
  /\ length(st.alternatives) < MaxItems
  /\ Saved(initMatrices([st EXCEPT !.alternatives =
              push(@, "A" \o ToString(length(st.alternatives) + 1))]))
  /\ UNCHANGED <<build, page, older, solveVars, coreVars, consVars, auxVars>>

\* a judgment on a row of the criteria block
CriteriaJudgment ==
  /\ page = "matrices" /\ UserEvent
  /\ \E p \in PairRows(length(st.criteria)) :
       \E e \in RowEvents(st.criteriaMatrix[p[1]][p[2]]) :
         /\ lastEvent' = RowEvent("criteria", p, e)
         /\ SavedThenRendered(
              [st EXCEPT !.criteriaMatrix = commit(st.criteriaMatrix, p[1], p[2], e[1], e[2])])
  /\ UNCHANGED <<build, page, older, solveVars, coreVars, consVars, auxVars>>

\* a judgment on a row of the alternatives block.  part_000 binds the rows
\* with bindPairwise; app.js passes the update callback to pairwiseUI, which
\* takes two parameters and ignores it, and never binds the rows: there the
\* slider and the buttons have no listener and the event changes nothing
AlternativesJudgment ==
  /\ page = "matrices" /\ UserEvent
  /\ LET activeIdx == st.activeCritIdx
         A == st.altMatrices[activeIdx]
     IN  \E p \in PairRows(length(st.alternatives)) :
           \E e \in RowEvents(A[p[1]][p[2]]) :
             /\ lastEvent' = RowEvent("alternatives", p, e)
             /\ IF build = "part_000"
                THEN SavedThenRendered(
                       [st EXCEPT !.altMatrices[activeIdx] = commit(A, p[1], p[2], e[1], e[2])])
                ELSE UNCHANGED <<st, storage>>
  /\ UNCHANGED <<build, page, older, solveVars, coreVars, consVars, auxVars>>

\* a click on a criterion tab
SelectTab ==
  /\ page = "matrices" /\ UserEvent
  /\ lastEvent' = Event("selectTab")
  /\ \E i \in DOMAIN st.criteria :
       SavedThenRendered([st EXCEPT !.activeCritIdx = i])
  /\ UNCHANGED <<build, page, older, solveVars, coreVars, consVars, auxVars>>

\* mutant: the button rebuilds every matrix
critReset_everyMatrix(s) == initMatrices(s)

\* st.criteriaMatrix = identityMatrix(st.criteria.length)
critReset(s) == [s EXCEPT !.criteriaMatrix = identityMatrix(length(s.criteria))]

\* crit_reset
ResetCriteria ==
  /\ page = "matrices" /\ UserEvent
  /\ lastEvent' = Event("resetCriteria")
  /\ SavedThenRendered(critReset(st))
  /\ UNCHANGED <<build, page, older, solveVars, coreVars, consVars, auxVars>>

\* alt_reset
ResetAlternatives ==
  /\ page = "matrices" /\ UserEvent
  /\ lastEvent' = Event("resetAlternatives")
  /\ SavedThenRendered(
       [st EXCEPT !.altMatrices[st.activeCritIdx] = identityMatrix(length(st.alternatives))])
  /\ UNCHANGED <<build, page, older, solveVars, coreVars, consVars, auxVars>>

\* mutant: part_000 runs main() once per page load
mainRuns_once(b) == 1

\* how often main() runs when a page loads: app.js registers it for
\* DOMContentLoaded; part_000 runs it for DOMContentLoaded (or at once) and
\* again for pageshow
mainRuns(b) == IF b = "part_000" THEN 2 ELSE 1

\* the runs of main() of a page load, from the k-th on: each loads the
\* snapshot into a new state object, renders and saves; the objects of the
\* runs before the last stay with the listeners of the static buttons
RECURSIVE MainRuns(_, _, _, _)
MainRuns(p, raw, k, objs) ==
  LET s == mainState(p, raw)
  IN  IF k <= 1 THEN [st |-> s, older |-> objs]
      ELSE MainRuns(p, saveState(s), k - 1, push(objs, s))

\* the page p loads
LoadPage(p, raw) ==
  /\ page' = p
  /\ LET m == MainRuns(p, raw, mainRuns(build), EmptyArray)
     IN  Saved(m.st) /\ older' = m.older

\* prevBtn / nextBtn: saveState(st), then the neighbouring page loads
Navigate ==
  /\ UserEvent
  /\ lastEvent' = WiredEvent("navigate")
  /\ \E p \in Pages :
       /\ \/ page = "setup" /\ p = "matrices"
          \/ page = "matrices" /\ p \in {"setup", "results"}
          \/ page = "results" /\ p = "matrices"
       /\ LoadPage(p, SaveAll(wiredObjects, 0, storage))
  /\ UNCHANGED <<build, solveVars, coreVars, consVars, auxVars>>

\* btnReset: saveState(defaultState()), then the setup page loads
ResetAll ==
  /\ UserEvent
  /\ lastEvent' = WiredEvent("resetAll")
  /\ LoadPage("setup", saveState(defaultState))
  /\ UNCHANGED <<build, solveVars, coreVars, consVars, auxVars>>

\* btnExport: each listener serialises what it computes from its own object
Export ==
  /\ UserEvent
  /\ lastEvent' = WiredEvent("export")
  /\ UNCHANGED <<build, page, st, older, storage, solveVars, coreVars, consVars, auxVars>>

\* the browser reloads the page shown
Reload ==
  /\ UserEvent
  /\ lastEvent' = Event("reload")
  /\ LoadPage(page, storage)
  /\ UNCHANGED <<build, solveVars, coreVars, consVars, auxVars>>

\* ------------------------------------------------------------------------
\* powerIterationWeights and ahpSolve as a step machine: one step per pass of
\* the loop, one for the code after the loop
\* ------------------------------------------------------------------------
NoSolveResult == [weights |-> EmptyArray, lambdaMax |-> Zero, ci |-> Zero, cr |-> Zero]

\* the values a committed judgment stores for the slider positions 1..r
JudgmentValues(r) == {Whole(k) : k \in 1..r} \cup {Num(1, k) : k \in 1..r}

\* the reciprocal matrices of order n over the values V: one free choice per
\* pair i < j, its reciprocal below the diagonal, 1 on the diagonal
ReciprocalMatrices(n, V) ==
  {[i \in 0..(n - 1) |-> [j \in 0..(n - 1) |->
      IF i = j THEN One ELSE IF i < j THEN u[<<i, j>>] ELSE Over(One, u[<<j, i>>])]] :
    u \in [PairRows(n) -> V]}

\* mutant: the loop condition is it <= maxIter
LoopContinues_offByOne(i, maxIter) == i <= maxIter

\* the loop condition it < maxIter
LoopContinues(i, maxIter) == i < maxIter

\* one pass of the loop body, then either break or it++
Iterate ==
  /\ sPc = "loop"
  /\ LoopContinues(sIt, sMaxIter)
  /\ LET b == IterBody(sA, sW)
     IN  /\ sW' = b.w
         /\ sDiff' = b.diff
         /\ sIters' = sIters + 1
         /\ IF BelowTol(b.diff, sTolExp)
            THEN sPc' = "post" /\ sIt' = sIt
            ELSE sPc' = "loop" /\ sIt' = sIt + 1
  /\ UNCHANGED <<sA, sMaxIter, sTolExp, sOut, uiVars, coreVars, consVars, auxVars>>

\* the loop condition fails: the cap is reached
ExitLoop ==
  /\ sPc = "loop"
  /\ ~LoopContinues(sIt, sMaxIter)
  /\ sPc' = "post"
  /\ UNCHANGED <<sA, sMaxIter, sTolExp, sIt, sW, sIters, sDiff, sOut, uiVars, coreVars, consVars, auxVars>>

\* the code after the loop, and ahpSolve's call of consistency
Finish ==
  /\ sPc = "post"
  /\ LET lambdaMax == LambdaEstimate(sA, sW)
         c == consistency(sA, lambdaMax)
     IN  sOut' = [weights |-> sW, lambdaMax |-> lambdaMax, ci |-> c.ci, cr |-> c.cr]
  /\ sPc' = "done"
  /\ UNCHANGED <<sA, sMaxIter, sTolExp, sIt, sW, sIters, sDiff, uiVars, coreVars, consVars, auxVars>>

\* a call powerIterationWeights(A, maxIter, tol) has just been entered
SolveEntered(A, maxIter, tolExp) ==
  /\ sA = A
  /\ sMaxIter = maxIter
  /\ sTolExp = tolExp
  /\ sIt = 0
  /\ sW = UniformWeights(length(A))
  /\ sIters = 0
  /\ sDiff = Zero
  /\ sPc = "loop"
  /\ sOut = NoSolveResult

\* no call of the solver is in progress
SolveIdle ==
  /\ sA = EmptyArray
  /\ sMaxIter = 0
  /\ sTolExp = 0
  /\ sIt = 0
  /\ sW = EmptyArray
  /\ sIters = 0
  /\ sDiff = Zero
  /\ sPc = "idle"
  /\ sOut = NoSolveResult

\* ------------------------------------------------------------------------
\* consistency(A, lambdaMax) as a one-step machine
\* ------------------------------------------------------------------------
NoConsResult == [ci |-> Zero, cr |-> Zero]

ConsistencyCall ==
  /\ kPc = "call"
  /\ kOut' = consistency(kA, kLambda)
  /\ kPc' = "done"
  /\ UNCHANGED <<kA, kLambda, uiVars, solveVars, coreVars, auxVars>>

ConsIdle ==
  /\ kA = EmptyArray
  /\ kLambda = Zero
  /\ kPc = "idle"
  /\ kOut = NoConsResult

\* ------------------------------------------------------------------------
\* The core functions on heap matrices: what a call writes
\* ------------------------------------------------------------------------
\* the matrix of the state object a call is given: t = -1 is criteriaMatrix,
\* t = c >= 0 is altMatrices[c]
TargetMatrix(s, t) == IF t < 0 THEN s.criteriaMatrix ELSE s.altMatrices[t]

NoCall == [fn |-> "none", target |-> -1, i |-> 0, j |-> 0, v |-> One]

NoOutcome == [pc |-> "idle", threw |-> FALSE, mat |-> EmptyArray, pre |-> EmptyHeap]

\* the values v a call of setPairwise is tried with: two judgments, and two
\* values outside the contract (v <= 0)
CoreValues == {Whole(3), Num(1, 9), Zero, Whole(-2)}

\* B = setPairwise(A, i, j, v).  With B[i] or B[j] undefined the assignment
\* throws before B is returned; B, and whatever was written to it, is garbage
CallSetPairwise ==
  /\ cOut.pc = "ready"
  /\ \E t \in -1..(length(hSt.altMatrices) - 1) :
       LET M == TargetMatrix(hSt, t)
           n == length(M)
       IN  \E i \in -1..n, j \in -1..n, v \in CoreValues :
             /\ cCall' = [fn |-> "setPairwise", target |-> t, i |-> i, j |-> j, v |-> v]
             /\ IF setPairwiseThrows(M, i, j)
                THEN /\ heap' = cloneMatrix(heap, M).heap
                     /\ cOut' = [pc |-> "returned", threw |-> TRUE,
                                 mat |-> EmptyArray, pre |-> heap]
                ELSE LET r == setPairwise(heap, M, i, j, v)
                     IN  /\ heap' = r.heap
                         /\ cOut' = [pc |-> "returned", threw |-> FALSE,
                                     mat |-> r.mat, pre |-> heap]
  /\ UNCHANGED <<hSt, uiVars, solveVars, consVars, auxVars>>

\* a call of a function that only reads its matrices
ReadOnlyCall(fn, t) ==
  /\ cOut.pc = "ready"
  /\ cCall' = [NoCall EXCEPT !.fn = fn, !.target = t]
  /\ cOut' = [pc |-> "returned", threw |-> FALSE, mat |-> EmptyArray, pre |-> heap]
  /\ UNCHANGED <<heap, hSt, uiVars, solveVars, consVars, auxVars>>

\* ahpSolve(A): powerIterationWeights and consistency read A[i][j] and A.length
CallAhpSolve == \E t \in -1..(length(hSt.altMatrices) - 1) : ReadOnlyCall("ahpSolve", t)

\* inconsistencyHints(labels, A, topK): reads A[i][j], A[i][k], A[k][j]; sorts
\* its own issues array
CallInconsistencyHints ==
  \E t \in -1..(length(hSt.altMatrices) - 1) : ReadOnlyCall("inconsistencyHints", t)

\* computeResults(st): solves every matrix of st; sorts a mapped copy of
\* st.alternatives
CallComputeResults == \E t \in {-1} : ReadOnlyCall("computeResults", t)

\* the state object s with its matrices stored on the heap
StoreState(s) ==
  LET c == Alloc(EmptyHeap, s.criteriaMatrix)
      RECURSIVE StoreAlts(_, _, _)
      StoreAlts(H, k, refs) ==
        IF k >= length(s.altMatrices) THEN [heap |-> H, refs |-> refs]
        ELSE LET a == Alloc(H, s.altMatrices[k])
             IN  StoreAlts(a.heap, k + 1, push(refs, a.mat))
      r == StoreAlts(c.heap, 0, EmptyArray)
  IN  [heap |-> r.heap,
       state |-> [s EXCEPT !.criteriaMatrix = c.mat, !.altMatrices = r.refs]]

CoreIdle ==
  /\ heap = EmptyHeap
  /\ hSt = defaultState
  /\ cCall = NoCall
  /\ cOut = NoOutcome

\* ------------------------------------------------------------------------
\* computeResults(st), inconsistencyHints(labels, A, topK) and loadState() as
\* one-step machines
\* ------------------------------------------------------------------------
NoResults ==
  [criteriaWeights |-> EmptyArray, criteriaCR |-> Zero,
   altWeightsByCriterion |-> EmptyArray, finalScores |-> EmptyArray,
   ranking |-> EmptyArray]

ComputeResultsCall ==
  /\ rPc = "call"
  /\ rOut' = computeResultsWith(rSt, rMaxIter, TolExpApp)
  /\ rPc' = "done"
  /\ UNCHANGED <<rSt, rMaxIter, uiVars, solveVars, coreVars, consVars, hintsVars, loadVars, callVars>>

ResultsIdle ==
  /\ rSt = defaultState
  /\ rMaxIter = 0
  /\ rPc = "idle"
  /\ rOut = NoResults

\* the labels handed to inconsistencyHints with a matrix of order n
HintLabels(n) == [k \in 0..(n - 1) |-> "L" \o ToString(k)]

NoHints == [issues |-> EmptyArray, hints |-> EmptyArray]

InconsistencyHintsCall ==
  /\ hPc = "call"
  /\ hOut' = [issues |-> recordedIssues(HintLabels(length(hA)), hA),
              hints |-> inconsistencyHints(HintLabels(length(hA)), hA, hTopK)]
  /\ hPc' = "done"
  /\ UNCHANGED <<hA, hTopK, uiVars, solveVars, coreVars, consVars, resultsVars, loadVars, callVars>>

HintsIdle ==
  /\ hA = EmptyArray
  /\ hTopK = 0
  /\ hPc = "idle"
  /\ hOut = NoHints

LoadStateCall ==
  /\ lPc = "call"
  /\ lOut' = loadStateOf(lDoc)
  /\ lPc' = "done"
  /\ UNCHANGED <<lDoc, uiVars, solveVars, coreVars, consVars, resultsVars, hintsVars, callVars>>

LoadIdle ==
  /\ lDoc = [defaultStateOf EXCEPT !.kind = "none"]
  /\ lPc = "idle"
  /\ lOut = Returned(defaultStateOf, TRUE)

\* the arguments of a call: the build whose function is called, a
\* consistency ratio, an order, a matrix and the digits it is solved with
NoCallArgs ==
  [fn |-> "none", build |-> "app.js", cr |-> Zero, n |-> 0, A |-> EmptyArray, digits |-> 0]

\* crBadge(cr) of app.js and part_000, crToBadge(cr) of part_001: the level
\* the badge shows
CrBadgeCall ==
  /\ fPc = "call" /\ fCall.fn = "crBadge"
  /\ fOut' = IF fCall.build = "part_001" THEN crToBadge(fCall.cr) ELSE crMessage(fCall.cr)
  /\ fPc' = "done"
  /\ UNCHANGED <<fCall, uiVars, solveVars, coreVars, consVars, resultsVars, hintsVars, loadVars>>

IdentityMatrixCall ==
  /\ fPc = "call" /\ fCall.fn = "identityMatrix"
  /\ fOut' = identityMatrix(fCall.n)
  /\ fPc' = "done"
  /\ UNCHANGED <<fCall, uiVars, solveVars, coreVars, consVars, resultsVars, hintsVars, loadVars>>

\* ahpSolve(A) in rounded arithmetic enters powerIterationWeights(A) with the
\* defaults of app.js: the weights start at 1/n and it at 0
AhpSolveCall ==
  /\ fPc = "call" /\ fCall.fn = "ahpSolve"
  /\ fOut' = [w |-> startWeightsRounded(fCall.A, Pow10(fCall.digits)), it |-> 0]
  /\ fPc' = "loop"
  /\ UNCHANGED <<fCall, uiVars, solveVars, coreVars, consVars, resultsVars, hintsVars, loadVars>>

\* one pass of for(let it=0; it<maxIter; it++){ ...; if(diff < tol) break; }
AhpSolvePass ==
  /\ fPc = "loop" /\ LoopContinues(fOut.it, MaxIterApp)
  /\ LET b == IterBodyRounded(fCall.A, fOut.w, Pow10(fCall.digits))
     IN  IF BelowTol(Num(b.diff, Pow10(fCall.digits)), TolExpApp)
         THEN fOut' = [w |-> b.w, it |-> fOut.it] /\ fPc' = "break"
         ELSE fOut' = [w |-> b.w, it |-> fOut.it + 1] /\ fPc' = "loop"
  /\ UNCHANGED <<fCall, uiVars, solveVars, coreVars, consVars, resultsVars, hintsVars, loadVars>>

\* the loop is left, by break or at it = maxIter, and ahpSolve returns
AhpSolveReturn ==
  /\ fPc = "break" \/ (fPc = "loop" /\ ~LoopContinues(fOut.it, MaxIterApp))
  /\ fOut' = ahpSolveRounded(fCall.A, fOut.w, Pow10(fCall.digits))
  /\ fPc' = "done"
  /\ UNCHANGED <<fCall, uiVars, solveVars, coreVars, consVars, resultsVars, hintsVars, loadVars>>

CallIdle ==
  /\ fCall = NoCallArgs
  /\ fPc = "idle"
  /\ fOut = "none"

AuxIdle == ResultsIdle /\ HintsIdle /\ LoadIdle /\ CallIdle

\* ------------------------------------------------------------------------
\* The UI specification: a session that starts on any page with empty storage
\* ------------------------------------------------------------------------
InitUI ==
  /\ build \in Builds
  /\ page \in Pages
  /\ LET m == MainRuns(page, NoSnapshot, mainRuns(build), EmptyArray)
     IN  st = m.st /\ older = m.older
  /\ storage = saveState(st)
  /\ nEvents = 0
  /\ lastEvent = NoEvent

\* ------------------------------------------------------------------------
\* The single-page build (src/unnamed/part_001): one state object, three
\* views on one page, nothing stored.  page is the view state.step selects;
\* st.activeCritIdx is state._activeCritIdx, which is unset until the first
\* renderMatrices() reads it through ?? 0
\* ------------------------------------------------------------------------
\* renderMatrices(): the tab index it leaves in the state
renderMatrices(s) ==
  IF s.activeCritIdx >= length(s.criteria) THEN [s EXCEPT !.activeCritIdx = 0] ELSE s

\* render(): the view of step 2 is renderMatrices()
render(p, s) == IF p = "matrices" THEN renderMatrices(s) ELSE s

\* apply() of a listener whose closure holds the matrix A, on the row p with
\* the event e: setPairwise(A, i, j, v) throws at B[j][i] = 1 / v when A has
\* no row j, and then onUpdate is not called
applyRow(A, p, e) ==
  IF p[2] < length(A) THEN commit(A, p[1], p[2], e[1], e[2]) ELSE A

\* a click on a step button: showStep(n)
ShowStep ==
  /\ build = "part_001" /\ UserEvent
  /\ lastEvent' = Event("showStep")
  /\ \E p \in Pages : page' = p /\ st' = render(p, st)
  /\ UNCHANGED <<build, older, storage, solveVars, coreVars, consVars, auxVars>>

\* crit_add and alt_add of the single page
PageAdd ==
  /\ build = "part_001" /\ page = "setup" /\ UserEvent
  /\ \/ /\ lastEvent' = Event("addCriterion")
        /\ length(st.criteria) < MaxItems
        /\ st' = initMatrices([st EXCEPT !.criteria =
                     push(@, "C" \o ToString(length(st.criteria) + 1))])
     \/ /\ lastEvent' = Event("addAlternative")
        /\ length(st.alternatives) < MaxItems
        /\ st' = initMatrices([st EXCEPT !.alternatives =
                     push(@, "A" \o ToString(length(st.alternatives) + 1))])
  /\ UNCHANGED <<build, page, older, storage, solveVars, coreVars, consVars, auxVars>>

\* the "-" button of a row of crit_list or alt_list of the single page
PageRemove ==
  /\ build = "part_001" /\ page = "setup" /\ UserEvent
  /\ \/ /\ removeAllowed(st.criteria)
        /\ lastEvent' = Event("removeCriterion")
        /\ \E i \in DOMAIN st.criteria :
             st' = initMatrices([st EXCEPT !.criteria = removeAt(@, i)])
     \/ /\ removeAllowed(st.alternatives)
        /\ lastEvent' = Event("removeAlternative")
        /\ \E i \in DOMAIN st.alternatives :
             st' = initMatrices([st EXCEPT !.alternatives = removeAt(@, i)])
  /\ UNCHANGED <<build, page, older, storage, solveVars, coreVars, consVars, auxVars>>

\* a judgment on a row of either block of the single page.  Each of the two
\* pairwiseUI calls of renderMatrices() defers a binding that runs over
\* document.querySelectorAll(".pairRow"), the rows of both blocks: every row
\* carries a listener closed over the criteria matrix and one closed over
\* the alternatives matrix of the active tab, and the event runs both
PageJudgment ==
  /\ build = "part_001" /\ page = "matrices" /\ UserEvent
  /\ LET activeIdx == st.activeCritIdx
         A == st.altMatrices[activeIdx]
     IN  \E level \in {"criteria", "alternatives"} :
           \E p \in PairRows(length(IF level = "criteria" THEN st.criteria
                                                           ELSE st.alternatives)) :
             \E e \in RowEvents((IF level = "criteria" THEN st.criteriaMatrix
                                                        ELSE A)[p[1]][p[2]]) :
               /\ lastEvent' = RowEvent(level, p, e)
               /\ st' = renderMatrices(
                           [st EXCEPT !.criteriaMatrix = applyRow(st.criteriaMatrix, p, e),
                                      !.altMatrices[activeIdx] = applyRow(A, p, e)])
  /\ UNCHANGED <<build, page, older, storage, solveVars, coreVars, consVars, auxVars>>

\* a click on a criterion tab of the single page
PageSelectTab ==
  /\ build = "part_001" /\ page = "matrices" /\ UserEvent
  /\ lastEvent' = Event("selectTab")
  /\ \E i \in DOMAIN st.criteria :
       st' = renderMatrices([st EXCEPT !.activeCritIdx = i])
  /\ UNCHANGED <<build, page, older, storage, solveVars, coreVars, consVars, auxVars>>

InitPage ==
  /\ build = "part_001"
  /\ page = "setup"
  /\ st = defaultState
  /\ older = EmptyArray
  /\ storage = NoSnapshot
  /\ nEvents = 0
  /\ lastEvent = NoEvent

NextPage == ShowStep \/ PageAdd \/ PageRemove \/ PageJudgment \/ PageSelectTab

NextUI ==
  \/ EditProblem
  \/ RenameCriterion
  \/ RemoveCriterion
  \/ RenameAlternative
  \/ RemoveAlternative
  \/ AddCriterion
  \/ AddAlternative
  \/ CriteriaJudgment
  \/ AlternativesJudgment
  \/ SelectTab
  \/ ResetCriteria
  \/ ResetAlternatives
  \/ Navigate
  \/ ResetAll
  \/ Export
  \/ Reload

\* ------------------------------------------------------------------------
\* Specifications
\* ------------------------------------------------------------------------
\* no page is open
UIIdle ==
  /\ build = "app.js"
  /\ page = "none"
  /\ st = defaultState
  /\ older = EmptyArray
  /\ storage = NoSnapshot
  /\ nEvents = 0
  /\ lastEvent = NoEvent

\* Spec: a session of the UI
Init == InitUI /\ SolveIdle /\ CoreIdle /\ ConsIdle /\ AuxIdle

Next == NextUI

Spec == Init /\ [][Next]_vars

\* SpecSolve: one call of the solver.  Every reciprocal matrix up to MaxOrder
\* with an explicit maxIter up to ItCap; with the defaults of the two builds,
\* the matrices on which exact arithmetic stays small: the consistent ones
\* (the loop leaves at its second pass) and degenerate ones (weights NaN)
ConsistentMatrix(A) ==
  \A i \in DOMAIN A, j \in DOMAIN A, k \in DOMAIN A : A[i][j] = Times(A[i][k], A[k][j])

DegenerateMatrices ==
  {[i \in 0..1 |-> [j \in 0..1 |-> Zero]],
   Deref(setPairwise(Alloc(EmptyHeap, identityMatrix(2)).heap,
                     Alloc(EmptyHeap, identityMatrix(2)).mat, 0, 1, Zero).heap,
         setPairwise(Alloc(EmptyHeap, identityMatrix(2)).heap,
                     Alloc(EmptyHeap, identityMatrix(2)).mat, 0, 1, Zero).mat)}

SolveMatrices ==
  UNION {ReciprocalMatrices(n, JudgmentValues(MaxSolveRaw)) : n \in 1..MaxOrder}

DefaultArgs == {<<MaxIterApp, TolExpApp>>, <<MaxIterSingle, TolExpSingle>>}

InitSolve ==
  /\ \/ \E A \in SolveMatrices, m \in 0..ItCap : SolveEntered(A, m, TolExpApp)
     \/ \E A \in {B \in SolveMatrices : ConsistentMatrix(B)} \cup DegenerateMatrices,
           d \in DefaultArgs : SolveEntered(A, d[1], d[2])
  /\ UIIdle
  /\ CoreIdle /\ ConsIdle /\ AuxIdle

NextSolve == Iterate \/ ExitLoop \/ Finish

SpecSolve == InitSolve /\ [][NextSolve]_vars

\* SpecConsistency: one call of consistency
LambdaInputs(n) == {Plus(Whole(n), Num(k, 4)) : k \in -1..MaxLambdaSteps}

InitConsistency ==
  /\ \E n \in 1..MaxConsOrder :
       /\ kA = identityMatrix(n)
       /\ kLambda \in LambdaInputs(n)
  /\ kPc = "call"
  /\ kOut = NoConsResult
  /\ UIIdle
  /\ SolveIdle /\ CoreIdle /\ AuxIdle

NextConsistency == ConsistencyCall

SpecConsistency == InitConsistency /\ [][NextConsistency]_vars

\* SpecCore: one call of a core function on a state object on the heap
CoreJudgments == {Whole(2), Num(1, 3)}

CoreStates ==
  {[defaultState EXCEPT
      !.criteria = [k \in 0..(nC - 1) |-> "C" \o ToString(k + 1)],
      !.alternatives = [k \in 0..(nA - 1) |-> "A" \o ToString(k + 1)],
      !.criteriaMatrix = C,
      !.altMatrices = [c \in 0..(nC - 1) |->
                         setPairwiseValue(identityMatrix(nA), 0, 1, Whole(c + 2))]] :
    <<nC, nA, C>> \in UNION {{<<n, a, M>> : a \in minLen..MaxCoreOrder,
                                            M \in ReciprocalMatrices(n, CoreJudgments)} :
                              n \in minLen..MaxCoreOrder}}

InitCore ==
  /\ \E s \in CoreStates :
       /\ heap = StoreState(s).heap
       /\ hSt = StoreState(s).state
  /\ cCall = NoCall
  /\ cOut = [NoOutcome EXCEPT !.pc = "ready"]
  /\ UIIdle
  /\ SolveIdle /\ ConsIdle /\ AuxIdle

NextCore == CallSetPairwise \/ CallAhpSolve \/ CallInconsistencyHints \/ CallComputeResults

SpecCore == InitCore /\ [][NextCore]_vars

\* SpecResults: one call of computeResults.  With the solver's defaults, on
\* the states whose matrices are consistent (exact arithmetic stays small);
\* with an explicit maxIter up to ItCap, on states with inconsistent matrices
Labels(prefix, n) == [k \in 0..(n - 1) |-> prefix \o ToString(k + 1)]

ConsistentMatrices(n) ==
  {B \in ReciprocalMatrices(n, JudgmentValues(MaxSolveRaw)) : ConsistentMatrix(B)}

\* (the states with both lists at their longest are left to the second set)
ResultStates ==
  UNION {UNION {
    {[defaultState EXCEPT !.criteria = Labels("C", nC),
                          !.alternatives = Labels("A", nA),
                          !.criteriaMatrix = C,
                          !.altMatrices = Am] :
       C \in ConsistentMatrices(nC),
       Am \in [0..(nC - 1) -> ConsistentMatrices(nA)]} :
    nA \in minLen..(2 * MaxResultsOrder - 1 - nC)} : nC \in minLen..MaxResultsOrder}

InitResults ==
  /\ \/ rSt \in ResultStates /\ rMaxIter = MaxIterApp
     \/ rSt \in CoreStates /\ rMaxIter \in 0..ItCap
  /\ rPc = "call"
  /\ rOut = NoResults
  /\ UIIdle
  /\ SolveIdle /\ CoreIdle /\ ConsIdle /\ HintsIdle /\ LoadIdle /\ CallIdle

NextResults == ComputeResultsCall

SpecResults == InitResults /\ [][NextResults]_vars

\* SpecHints: one call of inconsistencyHints.  Matrices up to order 3 over the
\* judgments a modelled user enters, those of order MaxHintOrder over the
\* judgments 1, 2 and 1/2 with the judgment (2, 3) possibly 9, and matrices
\* with an entry that is not positive and finite
HintValues == JudgmentValues(MaxRaw) \cup {Whole(SliderMax), Num(1, SliderMax)}

HintMatrices ==
  UNION {ReciprocalMatrices(n, HintValues) : n \in 1..3}
    \cup UNION {ReciprocalMatrices(n, JudgmentValues(2)) : n \in 4..MaxHintOrder}
    \cup {setPairwiseValue(A, 2, 3, Whole(SliderMax)) :
            A \in UNION {ReciprocalMatrices(n, JudgmentValues(2)) : n \in 4..MaxHintOrder}}
    \cup {setPairwiseValue(A, 0, 1, Zero) : A \in ReciprocalMatrices(3, JudgmentValues(2))}

InitHints ==
  /\ hA \in HintMatrices
  /\ hTopK \in 0..MaxTopK
  /\ hPc = "call"
  /\ hOut = NoHints
  /\ UIIdle
  /\ SolveIdle /\ CoreIdle /\ ConsIdle /\ ResultsIdle /\ LoadIdle /\ CallIdle

NextHints == InconsistencyHintsCall

SpecHints == InitHints /\ [][NextHints]_vars

\* SpecLoad: one call of loadState on a persisted value: nothing stored, text
\* that does not parse, null, a scalar, or an object whose fields are well
\* or badly formed
RowShapes == {NotArray} \cup (minLen..MaxDocOrder)

MatrixShapes ==
  {NoMatrix} \cup {ShapeOf(r) : r \in UNION {[0..(n - 1) -> RowShapes] : n \in minLen..MaxDocOrder}}

\* the elements tried in altMatrices: not an array, a square matrix of each
\* order, and an array of the least order with an element that is not a row
AltElementShapes ==
  {NoMatrix, ShapeOf([k \in 0..(minLen - 1) |-> IF k = 0 THEN minLen ELSE NotArray])}
    \cup {ShapeOf([k \in 0..(n - 1) |-> n]) : n \in minLen..MaxDocOrder}

MatricesShapes ==
  {NoMatrices} \cup {[isArray |-> TRUE, mats |-> m] :
                       m \in UNION {[0..(n - 1) -> AltElementShapes] : n \in minLen..MaxDocOrder}}

ListShapes(prefix, most) == {NoList} \cup {ListOf(Labels(prefix, n)) : n \in minLen..most}

\* a value that is not a number; the numbers -1, -0.5, 0.5, 1, 1.5 and
\* MaxDocOrder
IndexShapes ==
  {[isNumber |-> FALSE, val |-> 0, half |-> FALSE]}
    \cup {[isNumber |-> TRUE, val |-> v, half |-> FALSE] : v \in {-1, 1, MaxDocOrder}}
    \cup {[isNumber |-> TRUE, val |-> v, half |-> TRUE] : v \in {-1, 0, 1}}

ObjectDocs(most) ==
  {[kind |-> "object", problem |-> pr, criteria |-> cr, alternatives |-> al,
    criteriaMatrix |-> cm, altMatrices |-> am, activeCritIdx |-> ix] :
     pr \in BOOLEAN, cr \in ListShapes("C", most), al \in ListShapes("A", minLen),
     cm \in MatrixShapes, am \in MatricesShapes, ix \in IndexShapes}

Docs(most) ==
  ObjectDocs(most) \cup {[defaultStateOf EXCEPT !.kind = k] : k \in {"none", "garbage", "null", "scalar"}}

InitLoad ==
  /\ lDoc \in Docs(MaxDocOrder)
  /\ lPc = "call"
  /\ lOut = Returned(defaultStateOf, TRUE)
  /\ UIIdle
  /\ SolveIdle /\ CoreIdle /\ ConsIdle /\ ResultsIdle /\ HintsIdle /\ CallIdle

NextLoad == LoadStateCall

SpecLoad == InitLoad /\ [][NextLoad]_vars

\* SpecCalls: one call of a helper.  Consistency ratios in hundredths from
\* below 0 to MaxBadgeHundredths, in thousandths next to the thresholds, and
\* the values that are not finite; orders from 0 to MaxIdentityOrder; the
\* solver on 3 x 3 matrices of whole judgments with 2 to MaxDigits digits
BadgeBuilds == Builds \cup {"part_001"}

CrValues ==
  {Num(h, 100) : h \in (-5)..MaxBadgeHundredths}
    \cup {Num(t, 1000) : t \in {99, 101, 199, 201}}
    \cup {NaN, Infinity, Neg(Infinity)}

\* the 3 x 3 reciprocal matrices with whole judgments up to MaxScenarioRaw
ScenarioMatrices ==
  ReciprocalMatrices(3, {Whole(k) : k \in 1..MaxScenarioRaw})

CallArgs ==
  {[NoCallArgs EXCEPT !.fn = "crBadge", !.build = b, !.cr = c] :
     b \in BadgeBuilds, c \in CrValues}
    \cup {[NoCallArgs EXCEPT !.fn = "identityMatrix", !.n = n] : n \in 0..MaxIdentityOrder}
    \cup {[NoCallArgs EXCEPT !.fn = "ahpSolve", !.A = M, !.digits = d] :
            M \in ScenarioMatrices, d \in 2..MaxDigits}

InitCalls ==
  /\ fCall \in CallArgs
  /\ fPc = "call"
  /\ fOut = "none"
  /\ UIIdle
  /\ SolveIdle /\ CoreIdle /\ ConsIdle /\ ResultsIdle /\ HintsIdle /\ LoadIdle

NextCalls ==
  CrBadgeCall \/ IdentityMatrixCall \/ AhpSolveCall \/ AhpSolvePass \/ AhpSolveReturn

SpecCalls == InitCalls /\ [][NextCalls]_vars

\* SpecPage: a session of the single-page build
InitSinglePage == InitPage /\ SolveIdle /\ CoreIdle /\ ConsIdle /\ AuxIdle

SpecPage == InitSinglePage /\ [][NextPage]_vars

\* ------------------------------------------------------------------------
\* Properties
\* ------------------------------------------------------------------------
\* A is a pairwise matrix: unit diagonal, reciprocal, every entry positive
\* and finite
ValidMatrix(A) ==
  \A i \in DOMAIN A, j \in DOMAIN A :
    /\ IsFinite(A[i][j]) /\ Less(Zero, A[i][j])
    /\ A[i][i] = One
    /\ A[i][j] = Over(One, A[j][i])

\* A is an n x n grid
Square(A, n) == DOMAIN A = 0..(n - 1) /\ \A i \in DOMAIN A : DOMAIN A[i] = 0..(n - 1)

\* C1: in every state a UI session reaches, the criteria matrix and every
\* alternatives matrix has a unit diagonal, is reciprocal, and has only
\* strictly positive finite entries.
C1_MatricesStayReciprocal ==
  /\ ValidMatrix(st.criteriaMatrix)
  /\ \A c \in DOMAIN st.altMatrices : ValidMatrix(st.altMatrices[c])

\* a right-preferred judgment 1/9 sits in the criteria matrix and a judgment
\* in an alternatives matrix
C1_Witness ==
  /\ st.criteriaMatrix[0][1] = Num(1, 9)
  /\ \E c \in DOMAIN st.altMatrices : st.altMatrices[c][0][1] = Whole(2)

\* C2: in every state a UI session reaches there is one alternatives matrix
\* per criterion, each |alternatives| x |alternatives|, and the criteria
\* matrix is |criteria| x |criteria|.
C2_HierarchyDimensions ==
  /\ Square(st.criteriaMatrix, length(st.criteria))
  /\ DOMAIN st.altMatrices = DOMAIN st.criteria
  /\ \A c \in DOMAIN st.altMatrices : Square(st.altMatrices[c], length(st.alternatives))

\* both lists were resized and the matrices page was loaded from the snapshot
C2_Witness ==
  /\ page = "matrices"
  /\ length(st.criteria) = 4
  /\ length(st.alternatives) = 2

\* the arguments and matrices of the call the core machine made
CalledMatrixBefore == Deref(cOut.pre, TargetMatrix(hSt, cCall.target))
ReturnedMatrix == Deref(heap, cOut.mat)
SetPairwiseReturned == cOut.pc = "returned" /\ cCall.fn = "setPairwise"
InBounds(A, i) == i \in 0..(length(A) - 1)

\* C3: for a valid A, i # j in bounds and v > 0, B = setPairwise(A, i, j, v)
\* has B[i][j] = v, B[j][i] = 1/v, B[k][k] = 1 for every k, and every other
\* cell as in A.
C3_SetPairwiseLocal ==
  LET A == CalledMatrixBefore
      i == cCall.i
      j == cCall.j
      v == cCall.v
  IN  (/\ SetPairwiseReturned
       /\ ValidMatrix(A)
       /\ InBounds(A, i) /\ InBounds(A, j) /\ i # j
       /\ Less(Zero, v))
      => /\ ~cOut.threw
         /\ LET B == ReturnedMatrix
            IN  /\ Square(B, length(A))
                /\ B[i][j] = v
                /\ B[j][i] = Over(One, v)
                /\ \A k \in DOMAIN B : B[k][k] = One
                /\ \A p \in DOMAIN B, q \in DOMAIN B :
                     (<<p, q>> # <<i, j>> /\ <<p, q>> # <<j, i>>) => B[p][q] = A[p][q]

\* a cell below the diagonal of an alternatives matrix was set to 1/9, over a
\* different earlier value
C3_Witness ==
  /\ SetPairwiseReturned /\ ~cOut.threw
  /\ cCall.target = 1 /\ cCall.i = 1 /\ cCall.j = 0 /\ cCall.v = Num(1, 9)
  /\ CalledMatrixBefore[1][0] = Num(1, 3)
  /\ ReturnedMatrix[0][1] = Whole(9)

\* every row address the state object's matrices hold
InputRows == UNION {{TargetMatrix(hSt, t)[k] : k \in DOMAIN TargetMatrix(hSt, t)} :
                      t \in -1..(length(hSt.altMatrices) - 1)}

\* C4: after a call of setPairwise, ahpSolve, inconsistencyHints or
\* computeResults every cell of every matrix of the state object is as before
\* the call, and the matrix setPairwise returns shares no row with them.
C4_InputsNotMutated ==
  cOut.pc = "returned" =>
    /\ \A a \in DOMAIN cOut.pre : heap[a] = cOut.pre[a]
    /\ \A t \in -1..(length(hSt.altMatrices) - 1) :
         Deref(heap, TargetMatrix(hSt, t)) = Deref(cOut.pre, TargetMatrix(hSt, t))
    /\ (cCall.fn = "setPairwise" /\ ~cOut.threw) =>
         /\ {cOut.mat[k] : k \in DOMAIN cOut.mat} \cap InputRows = {}
         /\ \A k \in DOMAIN cOut.mat, m \in DOMAIN cOut.mat :
              k # m => cOut.mat[k] # cOut.mat[m]

\* setPairwise returned a matrix that differs from its input, which is intact
C4_Witness ==
  /\ SetPairwiseReturned /\ ~cOut.threw
  /\ cCall.target = -1 /\ cCall.i = 0 /\ cCall.j = 1 /\ cCall.v = Whole(3)
  /\ ReturnedMatrix[0][1] = Whole(3)
  /\ Deref(heap, hSt.criteriaMatrix)[0][1] = Num(1, 3)

\* C5: setPairwise(A, i, j, v) fails, returning no matrix, whenever v <= 0,
\* or i = j, or i or j is outside 0..n-1.
C5_SetPairwiseRejects ==
  LET A == CalledMatrixBefore
  IN  (/\ SetPairwiseReturned
       /\ \/ LessEq(cCall.v, Zero)
          \/ cCall.i = cCall.j
          \/ ~InBounds(A, cCall.i)
          \/ ~InBounds(A, cCall.j))
      => cOut.threw /\ cOut.mat = EmptyArray

\* ahpSolve was called with the defaults of app.js
SolvedWithDefaults == sPc = "done" /\ sMaxIter = MaxIterApp /\ sTolExp = TolExpApp

\* C6: for the all-ones matrix of any order n >= 1, ahpSolve returns
\* weights [1/n, ..., 1/n], lambdaMax = n, ci = 0 and cr = 0.
C6_NeutralSolve ==
  (SolvedWithDefaults /\ length(sA) >= 1 /\ sA = identityMatrix(length(sA)))
  => /\ sOut.weights = [i \in 0..(length(sA) - 1) |-> Num(1, length(sA))]
     /\ sOut.lambdaMax = Whole(length(sA))
     /\ sOut.ci = Zero
     /\ sOut.cr = Zero

\* C7: consistency(A, lambdaMax) returns ci = (lambdaMax - n)/(n - 1) for
\* order n > 1, and ci = 0 for n = 1.
C7_ConsistencyIndex ==
  kPc = "done" =>
    LET n == length(kA)
    IN  /\ n > 1 => kOut.ci = Over(Minus(kLambda, Whole(n)), Whole(n - 1))
        /\ n = 1 => kOut.ci = Zero

\* Saaty's table as the claim states it, in hundredths
SaatyHundredths(n) ==
  CASE n = 3 -> 58 [] n = 4 -> 90 [] n = 5 -> 112 [] n = 6 -> 124
    [] n = 7 -> 132 [] n = 8 -> 141 [] n = 9 -> 145 [] n >= 10 -> 149

\* C8: consistency returns cr = 0 for n = 1 and n = 2, whatever lambdaMax is,
\* and cr = ci / RI[n] otherwise, with Saaty's RI for n = 3..10 and 1.49 for
\* every n > 10.
C8_ConsistencyRatio ==
  kPc = "done" =>
    LET n == length(kA)
    IN  /\ n \in {1, 2} => kOut.cr = Zero
        /\ n >= 3 => kOut.cr = Over(kOut.ci, Num(SaatyHundredths(n), 100))

\* cr = 0 was returned for order 2 with lambdaMax above 2, and a non-zero
\* ratio for an order beyond the table
C8_Witness ==
  /\ kPc = "done"
  /\ \/ length(kA) = 2 /\ Less(Whole(2), kLambda) /\ kOut.cr = Zero
     \/ length(kA) > 10 /\ Less(Zero, kOut.cr)

LoopBounded ==
  /\ sIters <= sMaxIter
  /\ sIt <= sMaxIter
  /\ sPc \in {"post", "done"} => (sIters = sMaxIter \/ BelowTol(sDiff, sTolExp))
  /\ (sPc = "loop" /\ sIters > 0) => ~BelowTol(sDiff, sTolExp)

\* the guards of the solver's steps: a pass of the loop, leaving the loop at
\* the cap, the code after the loop
SolveCanStep ==
  \/ sPc = "loop" /\ LoopContinues(sIt, sMaxIter)
  \/ sPc = "loop" /\ ~LoopContinues(sIt, sMaxIter)
  \/ sPc = "post"

\* the number of steps a call can still take: the passes left, then leaving
\* the loop, then the code after it
StepsLeft ==
  IF sPc = "done" THEN 0
  ELSE IF sPc = "post" THEN 1
  ELSE 2 + (sMaxIter - sIt)

\* C10: powerIterationWeights terminates on every input: the loop runs at
\* most maxIter passes (1500 in app.js, 1000 in the single-page build) and
\* the call then returns; it leaves the loop at the first pass whose largest
\* componentwise change is below the tolerance.  A call that has not returned
\* can take a step, and every step lowers the non-negative number of steps
\* left, so the call returns.
C10_PowerIterationTerminates ==
  /\ [](LoopBounded /\ StepsLeft >= 0 /\ (sPc # "done" => SolveCanStep))
  /\ [][StepsLeft' < StepsLeft]_vars

\* a matrix on which the change never falls below the tolerance was iterated
\* the full 1500 passes and the call returned
C10_Witness ==
  /\ sPc = "done"
  /\ sMaxIter = MaxIterApp
  /\ sIters = MaxIterApp
  /\ ~BelowTol(sDiff, sTolExp)

\* the sum of f[x] over the finite set S of indices
RECURSIVE SumOver(_, _)
SumOver(S, f) ==
  IF S = {} THEN Zero
  ELSE LET x == CHOOSE y \in S : TRUE
       IN  Plus(f[x], SumOver(S \ {x}, f))

\* the solver's results on the matrices of the state computeResults was given
CriteriaSolved == ahpSolveWith(rSt.criteriaMatrix, rMaxIter, TolExpApp)
AlternativesSolved(c) == ahpSolveWith(rSt.altMatrices[c], rMaxIter, TolExpApp)

\* C11: computeResults returns one score per alternative, and the score of
\* alternative i is the sum over the criteria j of (weight of criterion j)
\* times (weight of alternative i under criterion j), the weights being the
\* solver's results on the matrices of the state.
C11_WeightedSumScores ==
  rPc = "done" =>
    /\ DOMAIN rOut.finalScores = DOMAIN rSt.alternatives
    /\ \A i \in DOMAIN rSt.alternatives :
         rOut.finalScores[i] =
           SumOver(DOMAIN rSt.criteria,
                   [j \in DOMAIN rSt.criteria |->
                      Times(CriteriaSolved.weights[j], AlternativesSolved(j).weights[i])])

\* results were computed with the defaults for unequal criteria weights, and
\* the scores of the alternatives differ
C11_Witness ==
  /\ rPc = "done" /\ rMaxIter = MaxIterApp
  /\ rOut.criteriaWeights[0] # rOut.criteriaWeights[1]
  /\ Less(rOut.finalScores[1], rOut.finalScores[0])

\* C12: when the criteria weights sum to 1 and the alternative weights under
\* every criterion sum to 1, the final scores sum to 1.
C12_ScoresSumToOne ==
  (/\ rPc = "done"
   /\ Sum(rOut.criteriaWeights) = One
   /\ \A c \in DOMAIN rOut.altWeightsByCriterion : Sum(rOut.altWeightsByCriterion[c]) = One)
  => Sum(rOut.finalScores) = One

\* three unequal scores that sum to 1 came from weight vectors that sum to 1
C12_Witness ==
  /\ rPc = "done"
  /\ Sum(rOut.criteriaWeights) = One
  /\ \A c \in DOMAIN rOut.altWeightsByCriterion : Sum(rOut.altWeightsByCriterion[c]) = One
  /\ length(rOut.finalScores) = 3
  /\ Less(rOut.finalScores[0], rOut.finalScores[1])
  /\ Less(rOut.finalScores[1], rOut.finalScores[2])
  /\ Sum(rOut.finalScores) = One

\* the one-to-one maps of the indices 0..m-1 onto themselves
IndexPermutations(m) ==
  {f \in [0..(m - 1) -> 0..(m - 1)] : \A a \in 0..(m - 1), b \in 0..(m - 1) : f[a] = f[b] => a = b}

\* C13: the ranking computeResults returns is a permutation of the
\* alternatives, each entry carrying its alternative's name and score; it is
\* ordered by score descending, and alternatives with equal scores keep the
\* order of the alternatives list.
C13_RankingSortedStable ==
  rPc = "done" =>
    \E f \in IndexPermutations(length(rSt.alternatives)) :
      /\ DOMAIN rOut.ranking = DOMAIN rSt.alternatives
      /\ \A k \in DOMAIN rOut.ranking :
           rOut.ranking[k] = [name |-> rSt.alternatives[f[k]], score |-> rOut.finalScores[f[k]]]
      /\ \A k \in DOMAIN rOut.ranking, l \in DOMAIN rOut.ranking :
           k < l => /\ LessEq(rOut.ranking[l].score, rOut.ranking[k].score)
                    /\ rOut.ranking[k].score = rOut.ranking[l].score => f[k] < f[l]

\* the last alternative ranks first, ahead of two alternatives with equal
\* scores, which keep their order
C13_Witness ==
  /\ rPc = "done" /\ length(rSt.alternatives) = 3
  /\ rOut.ranking[0].name = rSt.alternatives[2]
  /\ rOut.ranking[1].name = rSt.alternatives[0]
  /\ rOut.ranking[2].name = rSt.alternatives[1]
  /\ rOut.ranking[1].score = rOut.ranking[2].score
  /\ Less(rOut.ranking[1].score, rOut.ranking[0].score)

\* ------------------------------------------------------------------------
\* inconsistencyHints
\* ------------------------------------------------------------------------
\* a matrix of order at least 3 whose entries are all positive and finite
PositiveFinite(A) ==
  /\ length(A) >= 3
  /\ \A i \in DOMAIN A, j \in DOMAIN A : ~Unusable(A[i][j])

\* the disagreement of the direct judgment (i, j) with the path through k
Disagreement(A, i, j, k) == LogGap(A[i][j], Times(A[i][k], A[k][j]))

\* the entry `e` of the issues array is the record of the pair (i, j): its
\* witness attains the largest disagreement over the k outside {i, j}, which
\* is its score
RecordsPair(A, e, i, j) ==
  \E k \in DOMAIN A \ {i, j} :
    /\ e.text = IssueText(HintLabels(length(A)), i, j, k)
    /\ e.score = Disagreement(A, i, j, k)
    /\ \A l \in DOMAIN A \ {i, j} : LessEq(Disagreement(A, i, j, l), e.score)

\* C14: for a matrix of order n >= 3 with positive finite entries the issues
\* array of inconsistencyHints holds exactly one entry for every pair i < j,
\* with the largest disagreement over k as score and a k attaining it as
\* witness, also when that largest disagreement is 0.
C14_EveryPairRecorded ==
  (hPc = "done" /\ PositiveFinite(hA)) =>
    \A i \in DOMAIN hA, j \in DOMAIN hA :
      i < j => Cardinality({e \in DOMAIN hOut.issues :
                              RecordsPair(hA, hOut.issues[e], i, j)}) = 1

\* the smaller of two naturals
Smaller(a, b) == IF a < b THEN a ELSE b

\* the one-to-one maps of the positions of `hints` into those of `issues`
Selections(hints, issues) ==
  {g \in [DOMAIN hints -> DOMAIN issues] :
     \A a \in DOMAIN hints, b \in DOMAIN hints : g[a] = g[b] => a = b}

\* C15: inconsistencyHints returns at most topK entries; they are topK
\* recorded issues of highest score (all of them when fewer were recorded),
\* in non-increasing order of score.
C15_TopKByScore ==
  hPc = "done" =>
    /\ length(hOut.hints) = Smaller(hTopK, length(hOut.issues))
    /\ \A k \in DOMAIN hOut.hints, l \in DOMAIN hOut.hints :
         k < l => LessEq(hOut.hints[l].score, hOut.hints[k].score)
    /\ \E g \in Selections(hOut.hints, hOut.issues) :
         /\ \A k \in DOMAIN hOut.hints : hOut.hints[k] = hOut.issues[g[k]]
         /\ \A e \in DOMAIN hOut.issues :
              (\A k \in DOMAIN hOut.hints : g[k] # e) =>
                \A k \in DOMAIN hOut.hints :
                  LessEq(hOut.issues[e].score, hOut.hints[k].score)

\* with the default topK, more issues were recorded than are returned; the
\* issue recorded first scores less than every hint and is left out
C15_Witness ==
  /\ hPc = "done" /\ hTopK = topKDefault
  /\ length(hOut.issues) > topKDefault
  /\ length(hOut.hints) = topKDefault
  /\ \A k \in DOMAIN hOut.hints :
       /\ hOut.hints[k] # hOut.issues[0]
       /\ Less(hOut.issues[0].score, hOut.hints[k].score)

\* the matrix of the diagnostics scenario: A[0][1] = 9, A[0][2] = A[1][2] = 1
ScenarioMatrix ==
  setPairwiseValue(identityMatrix(3), 0, 1, Whole(SliderMax))

\* C16: for the 3x3 reciprocal matrix with A[0][1] = 9 and
\* A[0][2] = A[1][2] = 1 the first hint returned is the pair (0, 1) with
\* witness 2.
C16_ScenarioTopHint ==
  (hPc = "done" /\ hA = ScenarioMatrix /\ hTopK >= 1) =>
    /\ length(hOut.hints) >= 1
    /\ hOut.hints[0].text = IssueText(HintLabels(3), 0, 1, 2)
    /\ hOut.hints[0].score = Whole(SliderMax)

\* the scenario was run with the default topK; all three pairs were recorded
\* with the same score and the pair (0, 1) is returned first
C16_Witness ==
  /\ hPc = "done" /\ hA = ScenarioMatrix /\ hTopK = topKDefault
  /\ length(hOut.hints) = 3
  /\ hOut.hints[0].text = IssueText(HintLabels(3), 0, 1, 2)
  /\ hOut.hints[1].score = hOut.hints[0].score
  /\ hOut.hints[2].score = hOut.hints[0].score

\* ------------------------------------------------------------------------
\* The setup and matrices pages
\* ------------------------------------------------------------------------
\* the events that resize or replace the criteria or the alternatives list
ListEvents ==
  {"renameCriterion", "removeCriterion", "addCriterion",
   "renameAlternative", "removeAlternative", "addAlternative"}

\* C17: after a label of the criteria or alternatives list is edited or
\* removed, or an item is added, the criteria matrix is the all-ones matrix
\* of the order of the criteria list and there is one alternatives matrix
\* per criterion, each the all-ones matrix of the order of the alternatives
\* list: no judgment entered before survives.
C17_ListChangeResetsMatrices ==
  lastEvent.kind \in ListEvents =>
    /\ DOMAIN st.altMatrices = DOMAIN st.criteria
    /\ AllOnes(st)
    /\ storage = saveState(st)

\* a criterion was removed while a matrix held a judgment, and the matrices
\* are all ones of the smaller order
C17_Witness ==
  /\ lastEvent.kind = "removeCriterion" /\ lastEvent.dirty
  /\ length(st.criteria) = 2
  /\ st.criteriaMatrix = identityMatrix(2)
  /\ AllOnes(st)

\* the judgment of the last event was committed: the rows of the criteria
\* block are bound in both builds, those of the alternatives block in
\* part_000
Committed ==
  /\ lastEvent.kind = "judgment"
  /\ lastEvent.level = "criteria" \/ build = "part_000"

\* the matrix the last judgment was made on
JudgedMatrix ==
  IF lastEvent.level = "criteria" THEN st.criteriaMatrix
  ELSE st.altMatrices[st.activeCritIdx]

\* every entry of the matrix is one of 1..9 or 1/2..1/9
OnSaatyScale(A) ==
  \A i \in DOMAIN A : \A j \in DOMAIN A[i] : A[i][j] \in JudgmentValues(SliderMax)

\* C18: a committed judgment with slider value raw on the pair (i, j) stores
\* A[i][j] = raw when the left item is preferred and 1/raw when the right
\* item is preferred, raw being one of 1..9; and in every state reached
\* through the pages every matrix entry is one of 1..9 or 1/2..1/9.
C18_JudgmentOnSaatyScale ==
  /\ Committed =>
       /\ lastEvent.raw \in {Whole(r) : r \in SliderMin..SliderMax}
       /\ JudgedMatrix[lastEvent.i][lastEvent.j] =
            (IF lastEvent.right THEN Over(One, lastEvent.raw) ELSE lastEvent.raw)
  /\ OnSaatyScale(st.criteriaMatrix)
  /\ \A c \in DOMAIN st.altMatrices : OnSaatyScale(st.altMatrices[c])

\* the right item of a pair was preferred with the slider at 9 and the cell
\* holds 1/9
C18_Witness ==
  /\ Committed /\ lastEvent.right /\ lastEvent.raw = Whole(SliderMax)
  /\ JudgedMatrix[lastEvent.i][lastEvent.j] = Num(1, SliderMax)

\* C19: a judgment committed on the pair (i, j) of the alternatives block
\* while criterion c is active replaces altMatrices[c] by setPairwise of the
\* matrix it was, at (i, j), with the value of the judgment, and the new
\* state is persisted.
C19_AlternativesJudgmentReachesModel ==
  [][(/\ nEvents' = nEvents + 1
      /\ lastEvent'.kind = "judgment"
      /\ lastEvent'.level = "alternatives")
     => /\ st'.altMatrices[st.activeCritIdx] =
             commit(st.altMatrices[st.activeCritIdx], lastEvent'.i, lastEvent'.j,
                    lastEvent'.raw, lastEvent'.right)
        /\ storage' = saveState(st')]_vars

\* ------------------------------------------------------------------------
\* loadState
\* ------------------------------------------------------------------------
\* the matrix is an array of n rows, each an array of n cells
SquareShape(M, n) ==
  /\ M.isArray
  /\ DOMAIN M.rows = 0..(n - 1)
  /\ \A k \in DOMAIN M.rows : M.rows[k] = n

\* the hierarchy invariant on a value carried by its shapes
HierarchyShape(d) ==
  /\ SquareShape(d.criteriaMatrix, length(d.criteria.items))
  /\ d.altMatrices.isArray
  /\ DOMAIN d.altMatrices.mats = DOMAIN d.criteria.items
  /\ \A c \in DOMAIN d.altMatrices.mats :
       SquareShape(d.altMatrices.mats[c], length(d.alternatives.items))

\* the stored value parses to something with problem, criteria, alternatives
HasLists(doc) ==
  doc.kind = "object" /\ doc.problem /\ doc.criteria.isArray /\ doc.alternatives.isArray

\* C20: for every persisted value loadState returns without raising, and
\* the state returned has a criteria matrix of |criteria| rows of |criteria|
\* cells and |criteria| alternatives matrices of |alternatives| rows of
\* |alternatives| cells; a value that does not parse or lacks problem,
\* criteria or alternatives gives the default state; a value whose matrices
\* have wrong dimensions keeps its labels and gets all-ones matrices.
C20_LoadStateRestoresHierarchy ==
  lPc = "done" =>
    /\ ~lOut.threw
    /\ HierarchyShape(lOut.state)
    /\ ~HasLists(lDoc) => lOut.fresh /\ lOut.state = defaultStateOf
    /\ HasLists(lDoc) =>
         /\ ~lOut.fresh
         /\ lOut.state.criteria = lDoc.criteria
         /\ lOut.state.alternatives = lDoc.alternatives
         /\ ~HierarchyShape(lDoc) =>
              /\ lOut.state.criteriaMatrix = initMatricesOf(lDoc).criteriaMatrix
              /\ lOut.state.altMatrices = initMatricesOf(lDoc).altMatrices

\* C21: every state of a session has at least 2 criteria and at least 2
\* alternatives, so no page is rendered and nothing is solved with fewer;
\* a remove on a list of length 2 changes neither the state nor the
\* snapshot.
C21_NeverBelowTwo ==
  /\ [](length(st.criteria) >= 2 /\ length(st.alternatives) >= 2)
  /\ [][lastEvent'.kind = "removeRefused" /\ nEvents' = nEvents + 1
        => st' = st /\ storage' = storage]_vars

\* a remove was refused on a list that had been cut down to 2 items
C21_Witness ==
  /\ lastEvent.kind = "removeRefused"
  /\ length(st.criteria) = 2 \/ length(st.alternatives) = 2
  /\ nEvents >= 2

\* ------------------------------------------------------------------------
\* Persistence within a page
\* ------------------------------------------------------------------------
\* the last event ran a handler that changes the state object
ChangedState ==
  \/ lastEvent.kind \in ListEvents
  \/ lastEvent.kind \in {"editProblem", "selectTab", "resetCriteria", "resetAlternatives"}
  \/ Committed

\* the snapshot in storage holds the state s, field by field
SnapshotHolds(s) ==
  /\ storage.present
  /\ storage.value.problem = s.problem
  /\ storage.value.criteria = s.criteria
  /\ storage.value.alternatives = s.alternatives
  /\ storage.value.criteriaMatrix = s.criteriaMatrix
  /\ storage.value.altMatrices = s.altMatrices
  /\ storage.value.activeCritIdx = s.activeCritIdx

\* C22: when a handler that changes the state (problem name or goal, label
\* added, removed or renamed, judgment committed, matrix reset, tab
\* selected) has completed, the stored snapshot equals the state in memory
\* in problem, criteria, alternatives, criteriaMatrix, altMatrices and
\* activeCritIdx.
C22_SnapshotFollowsState ==
  ChangedState => SnapshotHolds(st)

\* a judgment was committed and the snapshot holds the matrix with it; a tab
\* other than the first had been selected before
C22_Witness ==
  /\ Committed /\ ~AllOnes(st)
  /\ st.activeCritIdx > 0
  /\ SnapshotHolds(st)

\* C23: the snapshot is read once per page, so one state object exists, and
\* every listener of a navigation, reset or export button reads the object
\* the page shows: none saves or exports a state older than the one shown.
C23_OneStateObject ==
  /\ older = EmptyArray
  /\ lastEvent.kind \in {"navigate", "resetAll", "export"} =>
       lastEvent.objects = 1 /\ lastEvent.stale = 0

\* ------------------------------------------------------------------------
\* The helpers called on their own
\* ------------------------------------------------------------------------
\* C24: a consistency ratio (any number, NaN aside) is classified at one of
\* three levels: good when cr <= 0.10, borderline when 0.10 < cr <= 0.20,
\* and the low-confidence warning when cr > 0.20.
C24_ThreeLevels ==
  (fPc = "done" /\ fCall.fn = "crBadge" /\ ~IsNaN(fCall.cr)) =>
    /\ fOut \in {"good", "mid", "warn"}
    /\ fOut = "good" <=> LessEq(fCall.cr, Num(10, 100))
    /\ fOut = "mid" <=> Less(Num(10, 100), fCall.cr) /\ LessEq(fCall.cr, Num(20, 100))
    /\ fOut = "warn" <=> Less(Num(20, 100), fCall.cr)

\* C25: for every n >= 0 identityMatrix(n) is an array of n rows of n cells,
\* every cell, on and off the diagonal, equal to 1.
C25_IdentityMatrixAllOnes ==
  (fPc = "done" /\ fCall.fn = "identityMatrix") =>
    /\ DOMAIN fOut = 0..(fCall.n - 1)
    /\ \A i \in DOMAIN fOut :
         /\ DOMAIN fOut[i] = 0..(fCall.n - 1)
         /\ \A j \in DOMAIN fOut[i] : fOut[i][j] = One

\* identityMatrix(MaxIdentityOrder) returned a matrix with 1 off the diagonal
C25_Witness ==
  /\ fPc = "done" /\ fCall.fn = "identityMatrix" /\ fCall.n = MaxIdentityOrder
  /\ fOut[0][MaxIdentityOrder - 1] = One
  /\ fOut[MaxIdentityOrder - 1][MaxIdentityOrder - 1] = One

\* the criteria matrix of the end-to-end scenario: A[0][1] = 3, A[0][2] = 5,
\* A[1][2] = 2 and their reciprocals
ScenarioCriteria ==
  setPairwiseValue(setPairwiseValue(setPairwiseValue(identityMatrix(3),
    0, 1, Whole(3)), 0, 2, Whole(5)), 1, 2, Whole(2))

\* |x - y| <= 0.05
Near(x, y) == LessEq(MathAbs(Minus(x, y)), Num(5, 100))

\* C26: for the criteria matrix of the scenario ahpSolve returns weights
\* within 0.05 of 0.64, 0.26 and 0.10, in decreasing order, and a
\* consistency ratio below 0.05.
C26_ScenarioWeights ==
  (fPc = "done" /\ fCall.fn = "ahpSolve" /\ fCall.A = ScenarioCriteria) =>
    /\ Near(fOut.weights[0], Num(64, 100))
    /\ Near(fOut.weights[1], Num(26, 100))
    /\ Near(fOut.weights[2], Num(10, 100))
    /\ Less(fOut.weights[1], fOut.weights[0])
    /\ Less(fOut.weights[2], fOut.weights[1])
    /\ Less(fOut.cr, Num(5, 100))

\* the scenario was solved with MaxDigits digits: the weights are 0.6483,
\* 0.2296 and 0.1220 and the consistency ratio is positive
C26_Witness ==
  /\ fPc = "done" /\ fCall.fn = "ahpSolve" /\ fCall.A = ScenarioCriteria
  /\ fCall.digits = MaxDigits
  /\ fOut.weights[0] = Num(6483, 10000)
  /\ fOut.weights[1] = Num(2296, 10000)
  /\ fOut.weights[2] = Num(1220, 10000)
  /\ Less(Zero, fOut.cr)

\* B is A but for the cells (i, j) and (j, i)
OnlyPairChanged(A, B, i, j) ==
  /\ DOMAIN B = DOMAIN A
  /\ \A r \in DOMAIN A :
       /\ DOMAIN B[r] = DOMAIN A[r]
       /\ \A c \in DOMAIN A[r] :
            (<<r, c>> \notin {<<i, j>>, <<j, i>>}) => B[r][c] = A[r][c]

\* C27: one judgment event changes only the matrix its row belongs to, and
\* of that matrix only the cells (i, j) and (j, i): a criteria judgment
\* leaves every alternatives matrix as it was, an alternatives judgment
\* leaves the criteria matrix and the matrices of the other tabs as they were.
C27_JudgmentChangesOneMatrix ==
  [][(lastEvent'.kind = "judgment" /\ nEvents' = nEvents + 1) =>
       LET i == lastEvent'.i
           j == lastEvent'.j
       IN  /\ lastEvent'.level = "criteria" =>
                /\ st'.altMatrices = st.altMatrices
                /\ OnlyPairChanged(st.criteriaMatrix, st'.criteriaMatrix, i, j)
           /\ lastEvent'.level = "alternatives" =>
                /\ st'.criteriaMatrix = st.criteriaMatrix
                /\ DOMAIN st'.altMatrices = DOMAIN st.altMatrices
                /\ \A c \in DOMAIN st.altMatrices :
                     IF c = st.activeCritIdx
                     THEN OnlyPairChanged(st.altMatrices[c], st'.altMatrices[c], i, j)
                     ELSE st'.altMatrices[c] = st.altMatrices[c]]_vars

\* C28: "Reset criteria" replaces only criteriaMatrix, by the all-ones matrix
\* of order |criteria|; "Reset this matrix" replaces only
\* altMatrices[activeCritIdx], by the all-ones matrix of order |alternatives|;
\* selecting a tab changes only activeCritIdx.  Lists, problem and every
\* other matrix stay as they were.
C28_ResetsAndTabsAreLocal ==
  [][(nEvents' = nEvents + 1) =>
       /\ lastEvent'.kind = "resetCriteria" =>
            st' = [st EXCEPT !.criteriaMatrix = identityMatrix(length(st.criteria))]
       /\ lastEvent'.kind = "resetAlternatives" =>
            st' = [st EXCEPT !.altMatrices[st.activeCritIdx] =
                               identityMatrix(length(st.alternatives))]
       /\ lastEvent'.kind = "selectTab" =>
            \E i \in DOMAIN st.criteria : st' = [st EXCEPT !.activeCritIdx = i]]_vars

\* "Reset criteria" was clicked on the second tab or a later one while an
\* alternatives matrix held a judgment: the criteria matrix is all ones, the
\* alternatives matrix still holds the judgment and the tab is still selected
C28_Witness ==
  /\ lastEvent.kind = "resetCriteria"
  /\ st.criteriaMatrix = identityMatrix(length(st.criteria))
  /\ st.activeCritIdx > 0
  /\ \E c \in DOMAIN st.altMatrices :
       st.altMatrices[c] # identityMatrix(length(st.alternatives))

\* C29: the index of the alternatives matrix selected for display is an
\* integer with 0 <= activeCritIdx < |criteria|, after loadState() on any
\* persisted activeCritIdx value.
C29_ActiveIndexInRange ==
  (lPc = "done" /\ ~lOut.threw) =>
    LET ix == lOut.state.activeCritIdx
    IN  /\ ix.isNumber /\ ~ix.half
        /\ 0 <= ix.val /\ ix.val < length(lOut.state.criteria.items)

\* C30: persistence round-trips every reachable state: for every state
\* object of a session, loadState() on the snapshot saveState() writes of it
\* returns a state equal to it in problem, criteria, alternatives,
\* criteriaMatrix, altMatrices and activeCritIdx.
C30_PersistenceRoundTrips ==
  \A k \in DOMAIN wiredObjects :
    LET s == wiredObjects[k]
        t == loadState(saveState(s))
    IN  /\ t.problem = s.problem
        /\ t.criteria = s.criteria
        /\ t.alternatives = s.alternatives
        /\ t.criteriaMatrix = s.criteriaMatrix
        /\ t.altMatrices = s.altMatrices
        /\ t.activeCritIdx = s.activeCritIdx

\* a page was loaded from the snapshot its predecessor saved, and the state
\* read back holds a reciprocal judgment and a tab other than the first
C30_Witness ==
  /\ lastEvent.kind = "navigate"
  /\ st = loadState(storage)
  /\ st.activeCritIdx > 0
  /\ \E i \in DOMAIN st.criteriaMatrix :
       \E j \in DOMAIN st.criteriaMatrix[i] :
         i < j /\ Less(st.criteriaMatrix[i][j], One)

====
